---- MODULE Spec2Model ----
(***************************************************************************)
(* A model of the Hack toolchain of nand-2-tetris: the assembler           *)
(* (parse_ins and assemble), the VM translator's code emitter (Coder) and   *)
(* the execution of the emitted assembly on the Hack machine.               *)
(*                                                                         *)
(* Source lines are TLA+ strings; a character is a string of length one.    *)
(***************************************************************************)
EXTENDS Integers, Sequences, FiniteSets, TLC

VARIABLES
    \* ---- assembler (assemble, src/src/assembler.rs) ----
    asm_pc,                \* position in assemble: parse, distribute, encode, done
    hist,                  \* ghost: one record per input line read so far
    sym_key_table,         \* HashMap<String, usize>: name -> slot id
    sym_val_table,         \* Vec<(u16, SymUse)>: slot id -> (address, usage)
    inss,                  \* Vec<Ins>: the instructions parsed so far
    ins_ptr,               \* u16
    error_count,           \* u32
    line_count,            \* u32
    next_var_ram_address,  \* u16
    bin_out,               \* the words written to bin_out, in order
    flushed,               \* whether bin_out.flush() has been called
    asm_result,            \* how assemble returned
    prior,                 \* ghost: the input read before the lines modelled, summarised
    \* ---- the Hack machine running emitted assembly ----
    scn,                   \* the scenario: the VM code translated, the machine it starts on
    emit_status,           \* how the emitter returned: Ok, IndexOutOfBounds or Panic
    cpu_text,              \* the assembly text loaded: the prologue and the fragments
    cpu_rom,               \* ROM: the instructions of cpu_text, label lines removed
    cpu_sym,               \* the address of every symbol of cpu_text
    ram0,                  \* ghost: RAM when the run started
    cpu_ram,               \* RAM: address -> 16-bit word (cells not listed hold 0)
    cpu_a,                 \* the A register
    cpu_d,                 \* the D register
    cpu_pc,                \* the program counter, a ROM address
    cpu_phase,             \* run, or for a call/return scenario: call, return
    \* ---- the VM translator (translate, src/vm-translator/src/main.rs) ----
    vm_pc,                 \* position in translate: start, between (files), file, done
    vm_coder,              \* Coder: the four counters
    vm_ctx,                \* InsContext of the file being translated
    vm_parser,             \* the instruction the parser is in the middle of
    vm_out,                \* out_file: the fragments written, in order
    vm_result,             \* running, or how translate returned
    vm_files,              \* ghost: the files opened so far and the lines read from each
    vm_tokens              \* ghost: every word the tokenizer classified, with its token

asm_vars == <<asm_pc, hist, sym_key_table, sym_val_table, inss, ins_ptr, error_count,
              line_count, next_var_ram_address, bin_out, flushed, asm_result, prior>>

cpu_vars == <<scn, emit_status, cpu_text, cpu_rom, cpu_sym, ram0, cpu_ram, cpu_a, cpu_d,
              cpu_pc, cpu_phase>>

vm_vars == <<vm_pc, vm_coder, vm_ctx, vm_parser, vm_out, vm_result, vm_files, vm_tokens>>

vars == <<asm_vars, cpu_vars, vm_vars>>

(***************************************************************************)
(* Bounds of the model.                                                    *)
(***************************************************************************)
MaxLines == 3
MaxIndex == 3
MaxArgc == 2

(***************************************************************************)
(* Characters and strings.                                                 *)
(***************************************************************************)
Chars(s) == {SubSeq(s, i, i) : i \in 1..Len(s)}

CharAt(s, i) == SubSeq(s, i, i)

Digits == Chars("0123456789")

Letters == Chars("abcdefghijklmnopqrstuvwxyzABCDEFGHIJKLMNOPQRSTUVWXYZ")

FirstSymChars == Chars("_.$:") \cup Letters

SymChars == FirstSymChars \cup Digits

Whitespace == {" ", "\t"}

Ascii == SymChars \cup Whitespace \cup Chars("@()=;+-!&|#/,*<>[]{}%^~?'")

DigitOf(c) == CHOOSE d \in 0..9 : CharAt("0123456789", d + 1) = c

DigitChar(d) == CharAt("0123456789", d + 1)

RECURSIVE Dec(_)
\* format!("{}", n) of an unsigned integer: its decimal rendering
Dec(n) == IF n < 10 THEN DigitChar(n) ELSE Dec(n \div 10) \o DigitChar(n % 10)

(***************************************************************************)
(* parse_ins (src/src/main.rs).                                            *)
(***************************************************************************)
MAX_SYM_LEN == 255
MAX_MNE_LEN == 3
MNE_BUF_LEN == MAX_MNE_LEN + 1
MAX_INT_VAL == 32767
DEFAULT_RAM_ADDRESS == 0
U16_MAX == 65535

RECURSIVE Spaces(_)
Spaces(n) == IF n = 0 THEN "" ELSE " " \o Spaces(n - 1)

\* A mnemonic buffer [' '; MNE_BUF_LEN] holding the characters pushed so far.
MneBuf(mb) == mb \o Spaces(MNE_BUF_LEN - Len(mb))

DestTable == {"M   ", "D   ", "DM  ", "A   ", "AM  ", "AD  ", "ADM "}

CompTable == {"0   ", "1   ", "-1  ", "D   ", "A   ", "M   ", "!D  ", "!A  ", "!M  ",
              "-D  ", "-A  ", "-M  ", "D+1 ", "A+1 ", "M+1 ", "D-1 ", "A-1 ", "M-1 ",
              "D+A ", "D+M ", "D-A ", "D-M ", "A-D ", "M-D ", "D&A ", "D&M ", "D|A ",
              "D|M "}

JumpTable == {"JGT ", "JEQ ", "JGE ", "JLT ", "JNE ", "JLE ", "JMP "}

DestMne_from_mne_buf(mne_buf) == mne_buf \in DestTable

CompMne_from_mne_buf(mne_buf) == mne_buf \in CompTable

JumpMne_from_mne_buf(mne_buf) == mne_buf \in JumpTable

NoIns == [kind |-> "none", cint |-> 0, sym_id |-> 0, dest |-> "", comp |-> "", jump |-> ""]

InsA1(cint) == [NoIns EXCEPT !.kind = "A1", !.cint = cint]
InsA2(sym_id) == [NoIns EXCEPT !.kind = "A2", !.sym_id = sym_id]
InsL1(sym_id) == [NoIns EXCEPT !.kind = "L1", !.sym_id = sym_id]
InsC1(dest, comp) == [NoIns EXCEPT !.kind = "C1", !.dest = dest, !.comp = comp]
InsC2(dest, comp, jump) == [NoIns EXCEPT !.kind = "C2", !.dest = dest, !.comp = comp, !.jump = jump]
InsC3(comp, jump) == [NoIns EXCEPT !.kind = "C3", !.comp = comp, !.jump = jump]

\* The scanner's registers at the start of a line.
ScanStart == [dfa |-> "Start", sb0 |-> "", mb0 |-> "", mb1 |-> "", mb2 |-> "", err |-> ""]

\* push_sym_char: SymOverflow when the buffer is full.
push_sym_char(c, st) ==
    IF Len(st.sb0) = MAX_SYM_LEN THEN [st EXCEPT !.err = "SymOverflow"]
    ELSE [st EXCEPT !.sb0 = @ \o c]

\* push_mne_char on buffer field f: UnknownMne once more than MAX_MNE_LEN are pushed.
push_mne_char(c, st, f) ==
    LET pushed == [st EXCEPT ![f] = @ \o c]
    IN IF Len(pushed[f]) > MAX_MNE_LEN THEN [pushed EXCEPT !.err = "UnknownMne"] ELSE pushed

\* One character of the DFA (the match on dfa inside the for loop).
ScanChar(c, st) ==
    CASE st.dfa = "Start" ->
            IF c = "@" THEN [st EXCEPT !.dfa = "AOpen"]
            ELSE IF c = "(" THEN [st EXCEPT !.dfa = "LFirst"]
            ELSE [push_mne_char(c, st, "mb0") EXCEPT !.dfa = "CFirst"]
      [] st.dfa = "AOpen" ->
            IF c \in Digits THEN push_sym_char(c, [st EXCEPT !.dfa = "AInt"])
            ELSE IF c \in FirstSymChars THEN push_sym_char(c, [st EXCEPT !.dfa = "ASym"])
            ELSE [st EXCEPT !.err = "ExpectedFirstSymChar"]
      [] st.dfa = "ASym" ->
            IF c \in SymChars THEN push_sym_char(c, st)
            ELSE [st EXCEPT !.err = "ExpectedSymChar"]
      [] st.dfa = "AInt" ->
            IF c \in Digits THEN push_sym_char(c, st)
            ELSE [st EXCEPT !.err = "ExpectedDigit"]
      [] st.dfa = "LFirst" ->
            IF c \in FirstSymChars THEN push_sym_char(c, [st EXCEPT !.dfa = "LRest"])
            ELSE [st EXCEPT !.err = "ExpectedFirstSymChar"]
      [] st.dfa = "LRest" ->
            IF c \in SymChars THEN push_sym_char(c, st)
            ELSE IF c = ")" THEN [st EXCEPT !.dfa = "LClose"]
            ELSE [st EXCEPT !.err = "ExpectedSymChar"]
      [] st.dfa = "LClose" -> [st EXCEPT !.err = "UnexpectedChar"]
      [] st.dfa = "CFirst" ->
            IF c = ";" THEN [st EXCEPT !.dfa = "CJump1"]
            ELSE IF c = "=" THEN [st EXCEPT !.dfa = "CComp"]
            ELSE push_mne_char(c, st, "mb0")
      [] st.dfa = "CComp" ->
            IF c = ";" THEN [st EXCEPT !.dfa = "CJump2"]
            ELSE push_mne_char(c, st, "mb1")
      [] st.dfa = "CJump1" -> push_mne_char(c, st, "mb1")
      [] st.dfa = "CJump2" -> push_mne_char(c, st, "mb2")

RECURSIVE Scan(_, _, _)
\* The for loop over line.char_indices(): whitespace skipped, '#' ends the scan,
\* an error returns at once.
Scan(line, pos, st) ==
    IF pos > Len(line) \/ st.err # "" THEN st
    ELSE LET c == CharAt(line, pos)
         IN IF c \in Whitespace THEN Scan(line, pos + 1, st)
            ELSE IF c = "#" THEN st
            ELSE Scan(line, pos + 1, ScanChar(c, st))

RECURSIVE ParseU16(_, _, _)
\* str::parse::<u16>: -1 on overflow of u16.
ParseU16(s, pos, acc) ==
    IF pos > Len(s) THEN acc
    ELSE LET next == acc * 10 + DigitOf(CharAt(s, pos))
         IN IF next > U16_MAX THEN -1 ELSE ParseU16(s, pos + 1, next)

ParseErr(e, key, val) == [res |-> "Err", err |-> e, ins |-> NoIns, sym |-> "", key |-> key, val |-> val]

ParseOk(ins, sym, key, val) == [res |-> "Ok", err |-> "", ins |-> ins, sym |-> sym, key |-> key, val |-> val]

ParseNone(key, val) == [res |-> "None", err |-> "", ins |-> NoIns, sym |-> "", key |-> key, val |-> val]

SymVal(addr, use) == [addr |-> addr, use |-> use]

\* HashMap::insert / Entry::insert of key -> v
MapInsert(key, name, v) == [n \in DOMAIN key \cup {name} |-> IF n = name THEN v ELSE key[n]]

\* Terminal DFA::AInt
TermAInt(sb0, key, val) ==
    LET cint == ParseU16(sb0, 1, 0)
    IN IF cint = -1 THEN ParseErr("IntOverflow", key, val)
       ELSE IF cint > MAX_INT_VAL THEN ParseErr("IntOverflow", key, val)
       ELSE ParseOk(InsA1(cint), "", key, val)

\* A variant of the DFA::ASym terminal that resets the slot of a name it finds in
\* the table to an unassigned variable.
TermASym_Resets(sym, key, val) ==
    IF sym \in DOMAIN key
    THEN ParseOk(InsA2(key[sym]), sym, key,
                 [val EXCEPT ![key[sym] + 1] = SymVal(DEFAULT_RAM_ADDRESS, "ARAM")])
    ELSE LET sym_id == Len(val)
         IN ParseOk(InsA2(sym_id), sym, MapInsert(key, sym, sym_id),
                    Append(val, SymVal(DEFAULT_RAM_ADDRESS, "ARAM")))

\* Terminal DFA::ASym
TermASym(sym, key, val) ==
    IF sym \in DOMAIN key
    THEN ParseOk(InsA2(key[sym]), sym, key, val)
    ELSE LET sym_id == Len(val)
         IN ParseOk(InsA2(sym_id), sym, MapInsert(key, sym, sym_id),
                    Append(val, SymVal(DEFAULT_RAM_ADDRESS, "ARAM")))

\* A variant of the DFA::LClose terminal that gives a label already referenced as a
\* variable a slot of its own, leaving the earlier references on the old slot.
TermLClose_NewSlot(sym, ins_ptr_, key, val) ==
    LET sym_val == SymVal(ins_ptr_ + 1, "LROM")
        sym_id == Len(val)
    IN IF sym \in DOMAIN key /\ val[key[sym] + 1].use = "LROM"
       THEN ParseErr("DuplicateLabel", key, val)
       ELSE ParseOk(InsL1(sym_id), sym, MapInsert(key, sym, sym_id), Append(val, sym_val))

\* A variant of the DFA::LClose terminal that moves a label defined again to the
\* address of the new definition while reporting the duplicate.
TermLClose_Redefine(sym, ins_ptr_, key, val) ==
    LET sym_val == SymVal(ins_ptr_ + 1, "LROM")
        sym_id == Len(val)
    IN IF sym \in DOMAIN key
       THEN IF val[key[sym] + 1].use = "LROM"
            THEN ParseErr("DuplicateLabel", key, [val EXCEPT ![key[sym] + 1] = sym_val])
            ELSE ParseOk(InsL1(key[sym]), sym, key, [val EXCEPT ![key[sym] + 1] = sym_val])
       ELSE ParseOk(InsL1(sym_id), sym, MapInsert(key, sym, sym_id), Append(val, sym_val))

\* Terminal DFA::LClose
TermLClose(sym, ins_ptr_, key, val) ==
    LET sym_val == SymVal(ins_ptr_ + 1, "LROM")
    IN IF sym \in DOMAIN key
       THEN LET sym_id == key[sym]
            IN IF val[sym_id + 1].use = "LROM"
               THEN ParseErr("DuplicateLabel", key, val)
               ELSE ParseOk(InsL1(sym_id), sym, key, [val EXCEPT ![sym_id + 1] = sym_val])
       ELSE LET sym_id == Len(val)
            IN ParseOk(InsL1(sym_id), sym, MapInsert(key, sym, sym_id), Append(val, sym_val))

\* Terminals DFA::CComp, DFA::CJump1, DFA::CJump2
TermC(st, key, val) ==
    LET b0 == MneBuf(st.mb0)
        b1 == MneBuf(st.mb1)
        b2 == MneBuf(st.mb2)
    IN CASE st.dfa = "CComp" ->
                IF ~DestMne_from_mne_buf(b0) \/ ~CompMne_from_mne_buf(b1)
                THEN ParseErr("UnknownMne", key, val)
                ELSE ParseOk(InsC1(b0, b1), "", key, val)
         [] st.dfa = "CJump1" ->
                IF ~CompMne_from_mne_buf(b0) \/ ~JumpMne_from_mne_buf(b1)
                THEN ParseErr("UnknownMne", key, val)
                ELSE ParseOk(InsC3(b0, b1), "", key, val)
         [] st.dfa = "CJump2" ->
                IF ~DestMne_from_mne_buf(b0) \/ ~CompMne_from_mne_buf(b1)
                   \/ ~JumpMne_from_mne_buf(b2)
                THEN ParseErr("UnknownMne", key, val)
                ELSE ParseOk(InsC2(b0, b1, b2), "", key, val)

\* parse_ins(line, ins_ptr, sym_key_table, sym_val_table): the result and the tables after.
\* A variant of parse_ins that interns the symbol of a label line before it finds
\* the closing parenthesis missing.
parse_ins_InternsEarly(line, ins_ptr_, key, val) ==
    IF \E i \in 1..Len(line) : CharAt(line, i) \notin Ascii
    THEN ParseErr("NotASCII", key, val)
    ELSE LET st == Scan(line, 1, ScanStart)
         IN IF st.err # "" THEN ParseErr(st.err, key, val)
            ELSE CASE st.dfa = "Start" -> ParseNone(key, val)
                   [] st.dfa = "AOpen" -> ParseErr("AInsMissingArg", key, val)
                   [] st.dfa = "AInt" -> TermAInt(st.sb0, key, val)
                   [] st.dfa = "ASym" -> TermASym(st.sb0, key, val)
                   [] st.dfa = "LFirst" -> ParseErr("LInsMissingSym", key, val)
                   [] st.dfa = "LRest" ->
                        ParseErr("LInsMissingClose", TermASym(st.sb0, key, val).key,
                                 TermASym(st.sb0, key, val).val)
                   [] st.dfa = "LClose" -> TermLClose(st.sb0, ins_ptr_, key, val)
                   [] st.dfa = "CFirst" -> ParseErr("CInsNop", key, val)
                   [] OTHER -> TermC(st, key, val)

parse_ins(line, ins_ptr_, key, val) ==
    IF \E i \in 1..Len(line) : CharAt(line, i) \notin Ascii
    THEN ParseErr("NotASCII", key, val)
    ELSE LET st == Scan(line, 1, ScanStart)
         IN IF st.err # "" THEN ParseErr(st.err, key, val)
            ELSE CASE st.dfa = "Start" -> ParseNone(key, val)
                   [] st.dfa = "AOpen" -> ParseErr("AInsMissingArg", key, val)
                   [] st.dfa = "AInt" -> TermAInt(st.sb0, key, val)
                   [] st.dfa = "ASym" -> TermASym(st.sb0, key, val)
                   [] st.dfa = "LFirst" -> ParseErr("LInsMissingSym", key, val)
                   [] st.dfa = "LRest" -> ParseErr("LInsMissingClose", key, val)
                   [] st.dfa = "LClose" -> TermLClose(st.sb0, ins_ptr_, key, val)
                   [] st.dfa = "CFirst" -> ParseErr("CInsNop", key, val)
                   [] OTHER -> TermC(st, key, val)

(***************************************************************************)
(* encode_ins (crate::encoder, not among the sources): the standard Hack    *)
(* encoding, as the specification's section 4.4 gives it.                   *)
(***************************************************************************)
CompCode == [m \in CompTable |->
    CASE m = "0   " -> 42  [] m = "1   " -> 63  [] m = "-1  " -> 58
      [] m = "D   " -> 12  [] m = "A   " -> 48  [] m = "M   " -> 112
      [] m = "!D  " -> 13  [] m = "!A  " -> 49  [] m = "!M  " -> 113
      [] m = "-D  " -> 15  [] m = "-A  " -> 51  [] m = "-M  " -> 115
      [] m = "D+1 " -> 31  [] m = "A+1 " -> 55  [] m = "M+1 " -> 119
      [] m = "D-1 " -> 14  [] m = "A-1 " -> 50  [] m = "M-1 " -> 114
      [] m = "D+A " -> 2   [] m = "D+M " -> 66  [] m = "D-A " -> 19
      [] m = "D-M " -> 83  [] m = "A-D " -> 7   [] m = "M-D " -> 71
      [] m = "D&A " -> 0   [] m = "D&M " -> 64  [] m = "D|A " -> 21
      [] m = "D|M " -> 85]

DestCode == [m \in DestTable \cup {""} |->
    CASE m = "" -> 0 [] m = "M   " -> 1 [] m = "D   " -> 2 [] m = "DM  " -> 3
      [] m = "A   " -> 4 [] m = "AM  " -> 5 [] m = "AD  " -> 6 [] m = "ADM " -> 7]

JumpCode == [m \in JumpTable \cup {""} |->
    CASE m = "" -> 0 [] m = "JGT " -> 1 [] m = "JEQ " -> 2 [] m = "JGE " -> 3
      [] m = "JLT " -> 4 [] m = "JNE " -> 5 [] m = "JLE " -> 6 [] m = "JMP " -> 7]

\* encode_ins(ins, sym_val_table): the word, or -1 for None (an L-label).
encode_ins(ins, val) ==
    CASE ins.kind = "A1" -> ins.cint
      [] ins.kind = "A2" -> val[ins.sym_id + 1].addr
      [] ins.kind = "L1" -> -1
      [] OTHER -> 57344 + CompCode[ins.comp] * 64 + DestCode[ins.dest] * 8 + JumpCode[ins.jump]

(***************************************************************************)
(* assemble (src/src/assembler.rs).                                        *)
(***************************************************************************)
MAX_PARSE_ERRORS == 10
SCR_RAM_ADDRESS == 16384
KBD_RAM_ADDRESS == 24576
MAX_ROM_ADDRESS == 32767

\* The predefined symbols in the order assemble inserts them, with the addresses
\* it pushes: R0..R15, then SP LCL ARG THIS THAT, then SCREEN and KBD.
Predefined ==
    [i \in 1..16 |-> [name |-> "R" \o Dec(i - 1), addr |-> i - 1]]
    \o [i \in 1..5 |-> [name |-> <<"SP", "LCL", "ARG", "THIS", "THAT">>[i], addr |-> i - 1]]
    \o <<[name |-> "SCREEN", addr |-> SCR_RAM_ADDRESS], [name |-> "KBD", addr |-> KBD_RAM_ADDRESS]>>

PredefinedNames == {Predefined[i].name : i \in DOMAIN Predefined}

\* sym_key_table after the seeding: each name maps to sym_val_table.len() at its insert.
SeedKey == [n \in PredefinedNames |-> (CHOOSE i \in DOMAIN Predefined : Predefined[i].name = n) - 1]

\* sym_val_table after the seeding: every predefined symbol is pushed as ARAM.
SeedVal == [i \in DOMAIN Predefined |-> SymVal(Predefined[i].addr, "ARAM")]

\* next_var_ram_address after the R0..R15 loop: one increment per register.
SeedNextVar == Cardinality({i \in DOMAIN Predefined : Predefined[i].name \in {"R" \o Dec(j) : j \in 0..15}})

\* The machine is not part of an assembler run.
CpuIdle ==
    /\ scn = [kind |-> "none"]
    /\ emit_status = "Ok"
    /\ cpu_text = <<>>
    /\ cpu_rom = <<>>
    /\ cpu_sym = <<>>
    /\ ram0 = <<>>
    /\ cpu_ram = <<>>
    /\ cpu_a = 0
    /\ cpu_d = 0
    /\ cpu_pc = 0
    /\ cpu_phase = "none"

\* No input is summarised: the lines modelled are the whole input.
NoPrior == [ins |-> 0, vars |-> 0, errs |-> 0, written |-> 0]

\* The translator is not running.
VmIdle ==
    /\ vm_pc = "none"
    /\ vm_coder = <<>>
    /\ vm_ctx = <<>>
    /\ vm_parser = <<>>
    /\ vm_out = <<>>
    /\ vm_result = "none"
    /\ vm_files = <<>>
    /\ vm_tokens = {}

\* The lines an input file is drawn from.
AsmLines == {"@foo", "@bar", "(foo)", "@R0", "@SP", "@KBD", "D=A", "0;JMP", " # c", "@"}

AsmInit ==
    /\ asm_pc = "parse"
    /\ hist = <<>>
    /\ sym_key_table = SeedKey
    /\ sym_val_table = SeedVal
    /\ inss = <<>>
    /\ ins_ptr = 0
    /\ error_count = 0
    /\ line_count = 0
    /\ next_var_ram_address = SeedNextVar
    /\ bin_out = <<>>
    /\ flushed = FALSE
    /\ asm_result = "running"
    /\ prior = NoPrior
    /\ CpuIdle
    /\ VmIdle

\* The match on parse_ins' result: which instructions go to the list.
PushIns(list, r) == IF r.res = "Ok" THEN Append(list, r.ins) ELSE list

\* The match on parse_ins' result: how ins_ptr moves.
NextInsPtr(ip, r) ==
    CASE r.res = "Ok" /\ r.ins.kind = "L1" -> ip
      [] r.res = "Ok" -> ip + 1
      [] r.res = "None" -> ip
      [] OTHER -> ip + 1

\* Ghost: the slot a symbol instruction refers to, as parse_ins left it.
SlotAfter(r) ==
    IF r.res = "Ok" /\ r.ins.kind \in {"A2", "L1"} THEN r.val[r.ins.sym_id + 1]
    ELSE SymVal(0, "none")

\* A variant of the error arm's test that gives up one error later.
TooManyErrors_OneMore(r, errs) == r.res = "Err" /\ errs > MAX_PARSE_ERRORS

\* The error arm's test "if error_count >= MAX_PARSE_ERRORS".
TooManyErrors(r, errs) == r.res = "Err" /\ errs >= MAX_PARSE_ERRORS

\* One iteration of the loop over asm_in.lines(), for a line read without I/O error.
ParseLine(line) ==
    /\ asm_pc = "parse"
    /\ Len(hist) < MaxLines
    /\ LET r == parse_ins(line, ins_ptr, sym_key_table, sym_val_table)
           ip == NextInsPtr(ins_ptr, r)
           errs == IF r.res = "Err" THEN error_count + 1 ELSE error_count
           tooMany == TooManyErrors(r, errs)
           romFull == r.res # "None" /\ ~tooMany /\ ip >= MAX_ROM_ADDRESS
       IN /\ hist' = Append(hist, [line |-> line, res |-> r.res, err |-> r.err, ins |-> r.ins,
                                   sym |-> r.sym, ip |-> ins_ptr, slot |-> SlotAfter(r)])
          /\ line_count' = line_count + 1
          /\ sym_key_table' = r.key
          /\ sym_val_table' = r.val
          /\ inss' = PushIns(inss, r)
          /\ ins_ptr' = ip
          /\ error_count' = errs
          /\ flushed' = (flushed \/ romFull)
          /\ asm_pc' = IF tooMany \/ romFull THEN "done" ELSE "parse"
          /\ asm_result' = IF tooMany THEN "max_errors"
                           ELSE IF romFull THEN "rom_exhausted" ELSE asm_result
    /\ UNCHANGED <<next_var_ram_address, bin_out>>
    /\ UNCHANGED <<prior, cpu_vars, vm_vars>>

\* line_result? on an input read error: assemble returns Err.
ReadError ==
    /\ asm_pc = "parse"
    /\ Len(hist) < MaxLines
    /\ line_count' = line_count + 1
    /\ asm_pc' = "done"
    /\ asm_result' = "io_error"
    /\ UNCHANGED <<hist, sym_key_table, sym_val_table, inss, ins_ptr, error_count,
                   next_var_ram_address, bin_out, flushed>>
    /\ UNCHANGED <<prior, cpu_vars, vm_vars>>

\* asm_in.lines() is at its end: the parse loop is left.
EndOfInput ==
    /\ asm_pc = "parse"
    /\ asm_pc' = "distribute"
    /\ UNCHANGED <<hist, sym_key_table, sym_val_table, inss, ins_ptr, error_count, line_count,
                   next_var_ram_address, bin_out, flushed, asm_result>>
    /\ UNCHANGED <<prior, cpu_vars, vm_vars>>

\* The test of the distribution loop: which slots get a RAM address.
NeedsRamAddress(sv) == sv.use = "ARAM" /\ sv.addr = DEFAULT_RAM_ADDRESS

RECURSIVE DistributeFrom(_, _, _)
\* The loop "for (ram_address, usage) in &mut sym_val_table" from slot i on.
DistributeFrom(val, i, next) ==
    IF i > Len(val) THEN [val |-> val, next |-> next, exhausted |-> FALSE]
    ELSE LET hit == NeedsRamAddress(val[i])
             val2 == IF hit THEN [val EXCEPT ![i].addr = next] ELSE val
             next2 == IF hit THEN next + 1 ELSE next
         IN IF next2 >= SCR_RAM_ADDRESS
            THEN [val |-> val2, next |-> next2, exhausted |-> TRUE]
            ELSE DistributeFrom(val2, i + 1, next2)

\* The same loop over `count` consecutive slots that are all variables awaiting an
\* address: it stops at the slot that takes next_var_ram_address to the screen.
DistributeVars(count, next) ==
    IF count > 0 /\ next + count >= SCR_RAM_ADDRESS
    THEN [next |-> SCR_RAM_ADDRESS, exhausted |-> TRUE]
    ELSE [next |-> next + count, exhausted |-> FALSE]

\* The whole loop in table order: the predefined slots, the variables of the
\* summarised input, then the slots the modelled lines added.
DistributeAll(val, next) ==
    LET seeds == DistributeFrom(SubSeq(val, 1, Len(SeedVal)), 1, next)
        before == DistributeVars(prior.vars, seeds.next)
        rest == SubSeq(val, Len(SeedVal) + 1, Len(val))
    IN IF seeds.exhausted THEN [val |-> seeds.val \o rest, next |-> seeds.next, exhausted |-> TRUE]
       ELSE IF before.exhausted
       THEN [val |-> seeds.val \o rest, next |-> before.next, exhausted |-> TRUE]
       ELSE DistributeFrom(seeds.val \o rest, Len(SeedVal) + 1, before.next)

\* "Distribute RAM addresses to variables..."
Distribute ==
    /\ asm_pc = "distribute"
    /\ LET d == DistributeAll(sym_val_table, next_var_ram_address)
       IN /\ sym_val_table' = d.val
          /\ next_var_ram_address' = d.next
          /\ flushed' = (flushed \/ d.exhausted)
          /\ asm_pc' = IF d.exhausted THEN "done" ELSE "encode"
          /\ asm_result' = IF d.exhausted THEN "ram_exhausted" ELSE asm_result
    /\ UNCHANGED <<hist, sym_key_table, inss, ins_ptr, error_count, line_count, bin_out>>
    /\ UNCHANGED <<prior, cpu_vars, vm_vars>>

\* A variant of the encoding loop that writes a word for every instruction of the
\* list, label instructions included.
EncodeAll_EveryIns(list, i, val) == [k \in 1..Len(list) |-> encode_ins(list[k], val)]

RECURSIVE EncodeAll(_, _, _)
\* The loop "for ins in inss": a word is written for every Some(bin_ins).
EncodeAll(list, i, val) ==
    IF i > Len(list) THEN <<>>
    ELSE LET w == encode_ins(list[i], val)
         IN (IF w = -1 THEN <<>> ELSE <<w>>) \o EncodeAll(list, i + 1, val)

\* "Encode instructions and write to disk...", the flush and the return.
Encode ==
    /\ asm_pc = "encode"
    /\ bin_out' = bin_out \o EncodeAll(inss, 1, sym_val_table)
    /\ flushed' = TRUE
    /\ asm_pc' = "done"
    /\ asm_result' = "ok"
    /\ prior' = [prior EXCEPT !.written = prior.ins]
    /\ UNCHANGED <<hist, sym_key_table, sym_val_table, inss, ins_ptr, error_count, line_count,
                   next_var_ram_address>>
    /\ UNCHANGED <<cpu_vars, vm_vars>>

AsmNext ==
    \/ \E line \in AsmLines : ParseLine(line)
    \/ ReadError
    \/ EndOfInput
    \/ Distribute
    \/ Encode

SpecAsm == AsmInit /\ [][AsmNext]_vars

(***************************************************************************)
(* parse_ins on its own: the parse loop fed with lines of every kind, among *)
(* them one for each way a line can fail to parse.                          *)
(***************************************************************************)
ParseLines == {"@foo", "@bar", "(foo)", "@R0", "D=A", " # c", "@7", "@", "@9x", "(foo", "()",
               "(foo)x", "X=Y", "D", "@99999", "é"}

ParseNext == \E line \in ParseLines : ParseLine(line)

SpecParse == AsmInit /\ [][ParseNext]_vars

(***************************************************************************)
(* assemble close to its limits. The input read before the modelled lines   *)
(* is summarised in `prior`: prior.vars lines @v with a fresh variable      *)
(* each, D=A lines up to prior.ins instructions, and prior.errs lines that  *)
(* do not parse. The loop has counted those lines; their instructions and   *)
(* slots are not held one by one.                                           *)
(***************************************************************************)
EdgeWidth == 3

\* How far the summarised input may leave the four limits of assemble.
PriorInputs ==
    {[ins |-> 0, vars |-> 0, errs |-> MAX_PARSE_ERRORS - k, written |-> 0] : k \in 1..EdgeWidth}
    \cup {[ins |-> MAX_ROM_ADDRESS - k, vars |-> 0, errs |-> 0, written |-> 0] : k \in 1..EdgeWidth}
    \cup {[ins |-> SCR_RAM_ADDRESS - SeedNextVar - k, vars |-> SCR_RAM_ADDRESS - SeedNextVar - k,
           errs |-> 0, written |-> 0] : k \in 0..(EdgeWidth + 2)}

\* The loop over asm_in.lines() after the summarised input.
AsmEdgeInit ==
    /\ asm_pc = "parse"
    /\ hist = <<>>
    /\ sym_key_table = SeedKey
    /\ sym_val_table = SeedVal
    /\ inss = <<>>
    /\ prior \in PriorInputs
    /\ ins_ptr = prior.ins + prior.errs
    /\ error_count = prior.errs
    /\ line_count = prior.ins + prior.errs
    /\ next_var_ram_address = SeedNextVar
    /\ bin_out = <<>>
    /\ flushed = FALSE
    /\ asm_result = "running"
    /\ CpuIdle
    /\ VmIdle

SpecAsmEdge == AsmEdgeInit /\ [][AsmNext]_vars

(***************************************************************************)
(* The VM code emitter (src/vm-translator/src/coder.rs). A fragment is the  *)
(* sequence of the lines written; numbers are formatted in decimal.         *)
(***************************************************************************)
CALL_STACK_BASE_ADDRESS == 256
MAX_STATIC_VARIABLES == 240

EQ_IMPL_LABEL == "__EQ_IMPL"
GT_IMPL_LABEL == "__GT_IMPL"
LT_IMPL_LABEL == "__LT_IMPL"
RETURN_IMPL_LABEL == "__RETURN_IMPL"
CALL_IMPL_LABEL == "__CALL_IMPL"

\* Coder::new
CoderNew == [call_count |-> 0, eq_count |-> 0, lt_count |-> 0, gt_count |-> 0]

\* InsContext of one input file, as translate builds it
InsContext(file) == [vm_file_name |-> file, vm_function_name |-> ""]

bootstrap_impl ==
    <<"@" \o Dec(CALL_STACK_BASE_ADDRESS), "D=A", "@SP", "M=D", "@0", "D=A", "@R13", "M=D",
      "@sys.init", "D=A", "@R14", "M=D", "@__RET_SYS_INIT", "D=A", "@" \o CALL_IMPL_LABEL,
      "0;JMP", "(__RET_SYS_INIT)", "(__HANG)", "@__HANG", "0;JMP">>

eq_impl ==
    <<"(" \o EQ_IMPL_LABEL \o ")", "@R15", "M=D", "@SP", "AM=M-1", "D=M", "A=A-1", "D=M-D",
      "M=0", "@__END_EQ", "D;JNE", "@SP", "A=M-1", "M=-1", "(__END_EQ)", "@R15", "A=M",
      "0;JMP">>

gt_impl ==
    <<"(" \o GT_IMPL_LABEL \o ")", "@R15", "M=D", "@SP", "AM=M-1", "D=M", "A=A-1", "D=M-D",
      "M=0", "@__END_GT", "D;JLE", "@SP", "A=M-1", "M=-1", "(__END_GT)", "@R15", "A=M",
      "0;JMP">>

lt_impl ==
    <<"(" \o LT_IMPL_LABEL \o ")", "@R15", "M=D", "@SP", "AM=M-1", "D=M", "A=A-1", "D=M-D",
      "M=0", "@__END_LT", "D;JGE", "@SP", "A=M-1", "M=-1", "(__END_LT)", "@R15", "A=M",
      "0;JMP">>

return_impl ==
    <<"(" \o RETURN_IMPL_LABEL \o ")", "@5", "D=A", "@LCL", "A=M-D", "D=M", "@R13", "M=D",
      "@SP", "AM=M-1", "D=M", "@ARG", "A=M", "M=D", "D=A", "@SP", "M=D+1", "@LCL", "D=M",
      "@R14", "AM=D-1", "D=M", "@THAT", "M=D", "@R14", "AM=M-1", "D=M", "@THIS", "M=D", "@R14",
      "AM=M-1", "D=M", "@ARG", "M=D", "@R14", "AM=M-1", "D=M", "@LCL", "M=D", "@R13", "A=M",
      "0;JMP">>

call_impl ==
    <<"(" \o CALL_IMPL_LABEL \o ")", "@SP", "A=M", "M=D", "@LCL", "D=M", "@SP", "AM=M+1",
      "M=D", "@ARG", "D=M", "@SP", "AM=M+1", "M=D", "@THIS", "D=M", "@SP", "AM=M+1", "M=D",
      "@THAT", "D=M", "@SP", "AM=M+1", "M=D", "@4", "D=A", "@R13", "D=D+M", "@SP", "D=M-D",
      "@ARG", "M=D", "@SP", "MD=M+1", "@LCL", "M=D", "@R14", "A=M", "0;JMP">>

\* A variant of the prologue whose __CALL_IMPL does not save THAT in the frame.
write_core_impl_NoThat ==
    bootstrap_impl \o eq_impl \o gt_impl \o lt_impl \o return_impl
        \o SubSeq(call_impl, 1, 19) \o SubSeq(call_impl, 25, Len(call_impl))

\* Coder::write_core_impl: the six blocks in the order they are written.
write_core_impl == bootstrap_impl \o eq_impl \o gt_impl \o lt_impl \o return_impl \o call_impl

Emitted(lines) == [status |-> "Ok", lines |-> lines]

EmitFailed(status) == [status |-> status, lines |-> <<>>]

write_function_ins(ctx, name, locals_count) ==
    CASE locals_count = 0 ->
            Emitted(<<"(" \o ctx.vm_file_name \o "." \o name \o ")">>)
      [] locals_count = 1 ->
            Emitted(<<"(" \o ctx.vm_file_name \o "." \o name \o ")", "@SP", "AM=M+1", "A=A-1",
                      "M=0">>)
      [] locals_count = 2 ->
            Emitted(<<"(" \o ctx.vm_file_name \o "." \o name \o ")", "@SP", "AM=M+1", "A=A-1",
                      "M=0", "@SP", "AM=M+1", "A=A-1", "M=0">>)
      [] OTHER ->
            Emitted(<<"(" \o ctx.vm_file_name \o "." \o name \o ")", "@" \o Dec(locals_count),
                      "D=A", "(__LOOP_" \o ctx.vm_file_name \o "." \o name \o ")", "D=D-1",
                      "@SP", "AM=M+1", "A=A-1", "M=0",
                      "@__LOOP_" \o ctx.vm_file_name \o "." \o name, "D;JGT">>)

write_call_ins(ctx, function, args_count, call_count) ==
    Emitted(<<"@" \o Dec(args_count), "D=A", "@R13", "M=D",
              "@" \o ctx.vm_file_name \o "." \o function, "D=A", "@R14 ", "M=D",
              "@" \o ctx.vm_file_name \o "." \o function \o "$ret." \o Dec(call_count), "D=A",
              "@" \o CALL_IMPL_LABEL, "0;JMP">>)

RECURSIVE StaticDigits(_, _, _)
\* The while loop of compose_segment_label: buf is ['\0'; 3] (a "" is a '\0'), i the
\* index written next. An index outside the array panics.
StaticDigits(num, i, buf) ==
    IF num = 0 THEN [panic |-> FALSE, buf |-> buf]
    ELSE IF i < 0 \/ i >= Len(buf) THEN [panic |-> TRUE, buf |-> buf]
    ELSE StaticDigits(num \div 10, i - 1, [buf EXCEPT ![i + 1] = DigitChar(num % 10)])

\* The index the digit loop starts at ("let mut i = 3").
StaticDigitStart == 3

compose_segment_label(ctx, segment, index) ==
    CASE segment = "constant" -> [status |-> "Ok", label |-> ""]
      [] segment = "argument" -> [status |-> "Ok", label |-> "ARG"]
      [] segment = "local" -> [status |-> "Ok", label |-> "LCL"]
      [] segment = "this" -> [status |-> "Ok", label |-> "THIS"]
      [] segment = "that" -> [status |-> "Ok", label |-> "THAT"]
      [] segment = "pointer" ->
            IF index = 0 THEN [status |-> "Ok", label |-> "THIS"]
            ELSE IF index = 1 THEN [status |-> "Ok", label |-> "THAT"]
            ELSE [status |-> "IndexOutOfBounds", label |-> ""]
      [] segment = "temp" ->
            IF index \in 0..7
            THEN [status |-> "Ok",
                  label |-> <<"R5", "R6", "R7", "R8", "R9", "R10", "R11", "R12">>[index + 1]]
            ELSE [status |-> "IndexOutOfBounds", label |-> ""]
      [] segment = "static" ->
            IF index >= MAX_STATIC_VARIABLES THEN [status |-> "IndexOutOfBounds", label |-> ""]
            ELSE LET d == StaticDigits(index, StaticDigitStart, <<"", "", "">>)
                 IN IF d.panic THEN [status |-> "Panic", label |-> ""]
                    ELSE [status |-> "Ok",
                          label |-> ctx.vm_file_name \o "." \o d.buf[1] \o d.buf[2] \o d.buf[3]]

write_push_ins(ctx, segment, index) ==
    LET composed == compose_segment_label(ctx, segment, index)
        label == composed.label
    IN IF composed.status # "Ok" THEN EmitFailed(composed.status)
       ELSE CASE segment = "constant" ->
                    (CASE index = 0 -> Emitted(<<"@SP", "M=M+1", "A=M-1", "M=0">>)
                       [] index = 1 -> Emitted(<<"@SP", "M=M+1", "A=M-1", "M=1">>)
                       [] OTHER -> Emitted(<<"@" \o Dec(index), "D=A", "@SP", "M=M+1", "A=M-1",
                                             "M=D">>))
              [] segment = "static" ->
                    Emitted(<<"@" \o label, "D=M", "@SP", "AM=M+1", "A=A-1", "M=D">>)
              [] OTHER ->
                    (CASE index = 0 -> Emitted(<<"@" \o label, "A=M", "D=M", "@SP", "AM=M+1",
                                                 "A=A-1", "M=D">>)
                       [] index = 1 -> Emitted(<<"@" \o label, "A=M+1", "D=M", "@SP", "AM=M+1",
                                                 "A=A-1", "M=D">>)
                       [] OTHER -> Emitted(<<"@" \o Dec(index), "D=A", "@" \o label, "A=M+D",
                                             "D=M", "@SP", "AM=M+1", "A=A-1", "M=D">>))

write_pop_ins(ctx, segment, index) ==
    LET composed == compose_segment_label(ctx, segment, index)
        label == composed.label
    IN IF composed.status # "Ok" THEN EmitFailed(composed.status)
       ELSE CASE segment = "constant" -> Emitted(<<>>)
              [] segment = "static" ->
                    Emitted(<<"@SP", "M=M-1", "A=M", "D=M", "@" \o label, "M=D">>)
              [] OTHER ->
                    (CASE index = 0 -> Emitted(<<"@SP", "M=M-1", "A=M", "D=M", "@" \o label,
                                                 "D=D+M", "@SP", "A=M", "A=M", "A=D-A",
                                                 "M=D-A">>)
                       [] index = 1 -> Emitted(<<"@SP", "M=M-1", "A=M", "D=M+1", "@" \o label,
                                                 "D=D+M", "@SP", "A=M", "A=M", "A=D-A",
                                                 "M=D-A">>)
                       [] OTHER -> Emitted(<<"@SP", "M=M-1", "A=M", "D=M+1", "@" \o Dec(index),
                                             "D=D+M", "@" \o label, "D=D+A", "@SP", "A=M",
                                             "A=M", "A=D-A", "M=D-A">>))

write_label_ins(ctx, label) ==
    Emitted(<<"(" \o ctx.vm_file_name \o "." \o ctx.vm_function_name \o "$" \o label \o ")">>)

write_if_goto_ins(ctx, label) ==
    Emitted(<<"@SP", "AM=M-1", "D=M",
              "@" \o ctx.vm_file_name \o "." \o ctx.vm_function_name \o "$" \o label, "D;JNE">>)

write_goto_ins(ctx, label) ==
    Emitted(<<"@" \o ctx.vm_file_name \o "." \o ctx.vm_function_name \o "$" \o label, "0;JMP">>)

write_return_ins == Emitted(<<"@" \o RETURN_IMPL_LABEL, "0;JMP">>)

\* A variant of write_add_ins that subtracts the top word instead of adding it.
write_add_ins_Sub == Emitted(<<"@SP", "AM=M-1", "D=M", "A=A-1", "M=M-D">>)

write_add_ins == Emitted(<<"@SP", "AM=M-1", "D=M", "A=A-1", "M=D+M">>)

write_sub_ins == Emitted(<<"@SP", "AM=M-1", "D=M", "A=A-1", "M=M-D">>)

write_neg_ins == Emitted(<<"@SP", "A=M-1", "M=-M">>)

write_and_ins == Emitted(<<"@SP", "AM=M-1", "D=M", "A=A-1", "M=D&M">>)

write_or_ins == Emitted(<<"@SP", "AM=M-1", "D=M", "A=A-1", "M=D|M">>)

write_not_ins == Emitted(<<"@SP", "A=M-1", "M=!M">>)

write_eq_ins(count) ==
    Emitted(<<"@__RET_EQ" \o Dec(count), "D=A", "@" \o EQ_IMPL_LABEL, "0;JMP",
              "(__RET_EQ" \o Dec(count) \o ")">>)

write_lt_ins(count) ==
    Emitted(<<"@__RET_LT" \o Dec(count), "D=A", "@" \o LT_IMPL_LABEL, "0;JMP",
              "(__RET_LT" \o Dec(count) \o ")">>)

write_gt_ins(count) ==
    Emitted(<<"@__RET_GT" \o Dec(count), "D=A", "@" \o GT_IMPL_LABEL, "0;JMP",
              "(__RET_GT" \o Dec(count) \o ")">>)

\* A VM instruction: op, the identifier (function or label name), the segment, the number.
VmIns(op, name, segment, n) == [op |-> op, name |-> name, segment |-> segment, n |-> n]

\* Coder::write_vm_ins: the counters after the call, and what was written.
write_vm_ins(coder, vm_ins, ctx) ==
    LET op == vm_ins.op
        bumped == CASE op = "call" -> [coder EXCEPT !.call_count = @ + 1]
                    [] op = "eq" -> [coder EXCEPT !.eq_count = @ + 1]
                    [] op = "lt" -> [coder EXCEPT !.lt_count = @ + 1]
                    [] op = "gt" -> [coder EXCEPT !.gt_count = @ + 1]
                    [] OTHER -> coder
        written ==
            CASE op = "function" -> write_function_ins(ctx, vm_ins.name, vm_ins.n)
              [] op = "call" -> write_call_ins(ctx, vm_ins.name, vm_ins.n, bumped.call_count)
              [] op = "push" -> write_push_ins(ctx, vm_ins.segment, vm_ins.n)
              [] op = "pop" -> write_pop_ins(ctx, vm_ins.segment, vm_ins.n)
              [] op = "label" -> write_label_ins(ctx, vm_ins.name)
              [] op = "if-goto" -> write_if_goto_ins(ctx, vm_ins.name)
              [] op = "goto" -> write_goto_ins(ctx, vm_ins.name)
              [] op = "return" -> write_return_ins
              [] op = "add" -> write_add_ins
              [] op = "sub" -> write_sub_ins
              [] op = "neg" -> write_neg_ins
              [] op = "and" -> write_and_ins
              [] op = "or" -> write_or_ins
              [] op = "not" -> write_not_ins
              [] op = "eq" -> write_eq_ins(bumped.eq_count)
              [] op = "lt" -> write_lt_ins(bumped.lt_count)
              [] op = "gt" -> write_gt_ins(bumped.gt_count)
    IN [coder |-> bumped, status |-> written.status, lines |-> written.lines]


(***************************************************************************)
(* The VM tokenizer (src/vm-translator/src/tokenizer.rs) and parser         *)
(* (src/vm-translator/src/parser.rs).                                       *)
(***************************************************************************)
VmCommands == {"function", "return", "label", "if-goto", "goto", "call", "push", "pop",
               "add", "sub", "neg", "and", "or", "not", "eq", "lt", "gt"}

\* VmSeg
Segments == {"argument", "local", "static", "constant", "this", "that", "pointer", "temp"}

\* word.parse::<u16>(): an optional '+', then one or more digits, value <= 65535;
\* -1 when the word is no such integer.
WordAsU16(word) ==
    LET digits == IF Len(word) > 0 /\ CharAt(word, 1) = "+" THEN SubSeq(word, 2, Len(word))
                  ELSE word
    IN IF Len(digits) > 0 /\ \A i \in 1..Len(digits) : CharAt(digits, i) \in Digits
       THEN ParseU16(digits, 1, 0) ELSE -1

\* The characters of the class [\w.$:] of the TOKEN regex.
TokenChars == Letters \cup Digits \cup Chars("_.$:")

\* TOKEN.is_match(word): the regex [\w.$:]+ is not anchored, so it matches as soon
\* as the word holds one character of the class.
TOKEN_is_match(word) == \E i \in 1..Len(word) : CharAt(word, i) \in TokenChars

VmToken(kind, word, val) == [kind |-> kind, word |-> word, val |-> val]

\* VmToken::from_str
VmToken_from_str(word) ==
    IF WordAsU16(word) # -1 THEN VmToken("IntConst", word, WordAsU16(word))
    ELSE IF word \in VmCommands THEN VmToken("Command", word, 0)
    ELSE IF word \in Segments THEN VmToken("Segment", word, 0)
    ELSE IF TOKEN_is_match(word) THEN VmToken("Identifier", word, 0)
    ELSE VmToken("InvalidToken", word, 0)

\* s.find("//") and split_at_mut: the line without its comment.
StripComment(line) ==
    LET at == {i \in 1..(Len(line) - 1) : SubSeq(line, i, i + 1) = "//"}
    IN IF at = {} THEN line
       ELSE SubSeq(line, 1, (CHOOSE i \in at : \A j \in at : i <= j) - 1)

RECURSIVE WordsFrom(_, _, _)
\* WORDS.find_iter: the maximal runs of non-whitespace characters, in order.
WordsFrom(s, pos, word) ==
    IF pos > Len(s) THEN (IF word = "" THEN <<>> ELSE <<word>>)
    ELSE IF CharAt(s, pos) \in Whitespace \cup {"\n", "\r"}
    THEN (IF word = "" THEN <<>> ELSE <<word>>) \o WordsFrom(s, pos + 1, "")
    ELSE WordsFrom(s, pos + 1, word \o CharAt(s, pos))

\* Tokenizer::next refilling from one line: the tokens of the line, or the error of
\* its first invalid word (the tokens before it on the line are never handed out).
Tokenizer_line(line) ==
    LET words == WordsFrom(StripComment(line), 1, "")
        toks == [i \in DOMAIN words |-> VmToken_from_str(words[i])]
        bad == {i \in DOMAIN toks : toks[i].kind = "InvalidToken"}
    IN IF bad = {} THEN [status |-> "Ok", tokens |-> toks, all |-> toks]
       ELSE [status |-> "InvalidToken", tokens |-> <<>>,
             all |-> SubSeq(toks, 1, CHOOSE i \in bad : \A j \in bad : i <= j)]

\* The operand kinds parse_command asks the tokenizer for after each command.
Operands(cmd) ==
    CASE cmd \in {"function", "call"} -> <<"Identifier", "IntConst">>
      [] cmd \in {"label", "if-goto", "goto"} -> <<"Identifier">>
      [] cmd \in {"push", "pop"} -> <<"Segment", "IntConst">>
      [] OTHER -> <<>>

\* parse_command's result once all its operands were received.
BuildIns(cmd, args) ==
    CASE cmd \in {"function", "call"} -> VmIns(cmd, args[1].word, "", args[2].val)
      [] cmd \in {"label", "if-goto", "goto"} -> VmIns(cmd, args[1].word, "", 0)
      [] cmd \in {"push", "pop"} -> VmIns(cmd, "", args[1].word, args[2].val)
      [] OTHER -> VmIns(cmd, "", "", 0)

\* What the parser yields in place of an instruction it cannot build.
ParseFailed(err) == [op |-> "ParseError", err |-> err]

\* The parser between two instructions.
ParserReady == [cmd |-> "", args |-> <<>>]

RECURSIVE ParseTokens(_, _, _)
\* Parser::next and parse_command over the tokens handed out, starting with the
\* parser in state `st`: the results yielded in order (an error is the last one)
\* and the state the parser is left in when the tokens run out.
ParseTokens(toks, st, items) ==
    IF toks = <<>> THEN [items |-> items, parser |-> st]
    ELSE LET t == Head(toks)
         IN IF st.cmd = ""
            THEN IF t.kind # "Command"
                 THEN [items |-> Append(items, ParseFailed("ExpectedCommand")),
                       parser |-> ParserReady]
                 ELSE IF Operands(t.word) = <<>>
                 THEN ParseTokens(Tail(toks), ParserReady, Append(items, BuildIns(t.word, <<>>)))
                 ELSE ParseTokens(Tail(toks), [cmd |-> t.word, args |-> <<>>], items)
            ELSE LET want == Operands(st.cmd)[Len(st.args) + 1]
                     args == Append(st.args, t)
                 IN IF t.kind # want
                    THEN [items |-> Append(items, ParseFailed("Expected" \o want)),
                          parser |-> ParserReady]
                    ELSE IF Len(args) = Len(Operands(st.cmd))
                    THEN ParseTokens(Tail(toks), ParserReady,
                                     Append(items, BuildIns(st.cmd, args)))
                    ELSE ParseTokens(Tail(toks), [st EXCEPT !.args = args], items)

RECURSIVE translate_file_WritesFailing(_, _, _, _)
\* A variant of translate_file's loop that hands the failing instruction's
\* emission to the output before returning the error.
translate_file_WritesFailing(items, coder, ctx, out) ==
    IF items = <<>> THEN [status |-> "Ok", coder |-> coder, ctx |-> ctx, out |-> out]
    ELSE LET ins == Head(items)
         IN IF ins.op = "ParseError"
            THEN [status |-> "ParseError", coder |-> coder, ctx |-> ctx, out |-> Append(out, <<>>)]
            ELSE LET w == write_vm_ins(coder, ins, ctx)
                 IN IF w.status # "Ok"
                    THEN [status |-> w.status, coder |-> w.coder, ctx |-> ctx,
                          out |-> Append(out, w.lines)]
                    ELSE translate_file_WritesFailing(Tail(items), w.coder, ctx,
                                                      Append(out, w.lines))

RECURSIVE translate_file(_, _, _, _)
\* translate_file: the loop over the parser's results `items`. A function
\* instruction sets the context's function name before it is written; the first
\* error ends the loop. `out` holds one fragment per instruction written.
translate_file(items, coder, ctx, out) ==
    IF items = <<>> THEN [status |-> "Ok", coder |-> coder, ctx |-> ctx, out |-> out]
    ELSE LET ins == Head(items)
         IN IF ins.op = "ParseError"
            THEN [status |-> "ParseError", coder |-> coder, ctx |-> ctx, out |-> out]
            ELSE LET ctx2 == IF ins.op = "function"
                             THEN [ctx EXCEPT !.vm_function_name = ins.name] ELSE ctx
                     w == write_vm_ins(coder, ins, ctx2)
                 IN IF w.status # "Ok"
                    THEN [status |-> w.status, coder |-> w.coder, ctx |-> ctx2, out |-> out]
                    ELSE translate_file(Tail(items), w.coder, ctx2, Append(out, w.lines))

RECURSIVE Flatten(_)
\* The lines of a sequence of fragments, in the order written.
Flatten(frags) == IF frags = <<>> THEN <<>> ELSE Head(frags) \o Flatten(Tail(frags))

(***************************************************************************)
(* The Hack machine (the platform the emitted assembly is written for):     *)
(* loading a text resolves its symbols as the Hack assembler is specified   *)
(* to, and one step executes one instruction.                               *)
(***************************************************************************)
WORD == 65536
ADDRESS_SPACE == 32768

StripWs(line) ==
    LET keep == SelectSeq([i \in 1..Len(line) |-> CharAt(line, i)], LAMBDA c : c \notin Whitespace)
        F[i \in 0..Len(keep)] == IF i = 0 THEN "" ELSE F[i - 1] \o keep[i]
    IN F[Len(keep)]

IsLabelText(line) == Len(line) > 0 /\ CharAt(line, 1) = "("

LabelOfText(line) == SubSeq(line, 2, Len(line) - 1)

IsNumeral(sym) == Len(sym) > 0 /\ \A i \in 1..Len(sym) : CharAt(sym, i) \in Digits

\* The AInt terminal's two IntOverflow returns: the literal does not parse as a u16, or
\* exceeds MAX_INT_VAL.
LiteralTooLarge(sym) == ParseU16(sym, 1, 0) = -1 \/ ParseU16(sym, 1, 0) > MAX_INT_VAL

\* The instructions of a text: its label lines produce no word.
LoadRom(text) ==
    SelectSeq([i \in DOMAIN text |-> StripWs(text[i])], LAMBDA l : ~IsLabelText(l))

\* The ROM address a label line stands for: that of the instruction following it.
LabelAddress(text, i) == Cardinality({j \in 1..(i - 1) : ~IsLabelText(StripWs(text[j]))})

\* The symbols of a text that are neither labels nor predefined, in the order of
\* their first @-reference.
VariablesOf(text) ==
    LET labels == {LabelOfText(StripWs(text[i])) :
                     i \in {j \in DOMAIN text : IsLabelText(StripWs(text[j]))}}
        isVar(l) == /\ Len(l) > 1 /\ CharAt(l, 1) = "@"
                    /\ ~IsNumeral(SubSeq(l, 2, Len(l)))
                    /\ SubSeq(l, 2, Len(l)) \notin labels \cup PredefinedNames
        refs == SelectSeq([i \in DOMAIN text |-> StripWs(text[i])], isVar)
        first == SelectSeq([i \in DOMAIN refs |-> i],
                           LAMBDA i : \A j \in 1..(i - 1) : refs[j] # refs[i])
    IN [k \in DOMAIN first |-> SubSeq(refs[first[k]], 2, Len(refs[first[k]]))]

\* The symbol table of a loaded text: labels, predefined symbols, then variables
\* from address 16 upward.
LoadSymbols(text) ==
    LET labelLines == {j \in DOMAIN text : IsLabelText(StripWs(text[j]))}
        labels == {LabelOfText(StripWs(text[i])) : i \in labelLines}
        variables == VariablesOf(text)
        varNames == {variables[k] : k \in DOMAIN variables}
    IN [n \in labels \cup PredefinedNames \cup varNames |->
           IF n \in labels
           THEN LabelAddress(text, CHOOSE i \in labelLines : LabelOfText(StripWs(text[i])) = n)
           ELSE IF n \in PredefinedNames
           THEN Predefined[CHOOSE i \in DOMAIN Predefined : Predefined[i].name = n].addr
           ELSE 15 + (CHOOSE k \in DOMAIN variables : variables[k] = n)]

Read(ram, a) == IF (a % ADDRESS_SPACE) \in DOMAIN ram THEN ram[a % ADDRESS_SPACE] ELSE 0

Write(ram, a, v) ==
    [x \in DOMAIN ram \cup {a % ADDRESS_SPACE} |-> IF x = a % ADDRESS_SPACE THEN v ELSE ram[x]]

Signed(v) == IF v >= WORD \div 2 THEN v - WORD ELSE v

RECURSIVE BitOp(_, _, _, _)
\* Bitwise and ("&") or or ("|") of the low n bits of x and y.
BitOp(op, x, y, n) ==
    IF n = 0 THEN 0
    ELSE LET bx == x % 2
             by == y % 2
             b == IF op = "&" THEN bx * by ELSE IF bx + by > 0 THEN 1 ELSE 0
         IN b + 2 * BitOp(op, x \div 2, y \div 2, n - 1)

FirstPos(line, ch) ==
    IF \E i \in 1..Len(line) : CharAt(line, i) = ch
    THEN CHOOSE i \in 1..Len(line) : CharAt(line, i) = ch /\ \A j \in 1..(i - 1) : CharAt(line, j) # ch
    ELSE 0

\* dest=comp;jump split into its three fields.
Fields(line) ==
    LET eq == FirstPos(line, "=")
        sc == FirstPos(line, ";")
        stop == IF sc = 0 THEN Len(line) + 1 ELSE sc
    IN [dest |-> IF eq = 0 THEN "" ELSE SubSeq(line, 1, eq - 1),
        comp |-> SubSeq(line, eq + 1, stop - 1),
        jump |-> IF sc = 0 THEN "" ELSE SubSeq(line, sc + 1, Len(line))]

\* The ALU: the value of a comp expression over A, D and M.
Alu(comp, a, d, m) ==
    LET operand(c) == CASE c = "A" -> a [] c = "D" -> d [] c = "M" -> m
                        [] c = "0" -> 0 [] c = "1" -> 1
    IN CASE Len(comp) = 1 -> operand(comp)
         [] Len(comp) = 2 ->
               LET x == operand(CharAt(comp, 2))
               IN IF CharAt(comp, 1) = "-" THEN (WORD - x) % WORD ELSE WORD - 1 - x
         [] Len(comp) = 3 ->
               LET x == operand(CharAt(comp, 1))
                   y == operand(CharAt(comp, 3))
                   op == CharAt(comp, 2)
               IN CASE op = "+" -> (x + y) % WORD
                    [] op = "-" -> (x - y + WORD) % WORD
                    [] OTHER -> BitOp(op, x, y, 16)

Jumps(jump, v) ==
    CASE jump = "" -> FALSE
      [] jump = "JGT" -> Signed(v) > 0
      [] jump = "JEQ" -> v = 0
      [] jump = "JGE" -> Signed(v) >= 0
      [] jump = "JLT" -> Signed(v) < 0
      [] jump = "JNE" -> v # 0
      [] jump = "JLE" -> Signed(v) <= 0
      [] jump = "JMP" -> TRUE

\* A line the assembler turns into a word: an A-instruction's literal above
\* MAX_INT_VAL is IntOverflow, and the text holding it assembles to no program.
Assembles(line) ==
    LET sym == SubSeq(line, 2, Len(line))
    IN ~(CharAt(line, 1) = "@" /\ IsNumeral(sym) /\ LiteralTooLarge(sym))

\* The machine executes the instruction at cpu_pc.
Step ==
    /\ cpu_phase \in {"run", "call", "return"}
    /\ cpu_pc < Len(cpu_rom)
    /\ Assembles(cpu_rom[cpu_pc + 1])
    /\ LET line == cpu_rom[cpu_pc + 1]
       IN IF CharAt(line, 1) = "@"
          THEN LET sym == SubSeq(line, 2, Len(line))
               IN /\ cpu_a' = IF IsNumeral(sym) THEN ParseU16(sym, 1, 0) ELSE cpu_sym[sym]
                  /\ cpu_pc' = cpu_pc + 1
                  /\ UNCHANGED <<cpu_d, cpu_ram>>
          ELSE LET f == Fields(line)
                   v == Alu(f.comp, cpu_a, cpu_d, Read(cpu_ram, cpu_a))
               IN /\ cpu_a' = IF "A" \in Chars(f.dest) THEN v ELSE cpu_a
                  /\ cpu_d' = IF "D" \in Chars(f.dest) THEN v ELSE cpu_d
                  /\ cpu_ram' = IF "M" \in Chars(f.dest) THEN Write(cpu_ram, cpu_a, v) ELSE cpu_ram
                  /\ cpu_pc' = IF Jumps(f.jump, v) THEN cpu_a ELSE cpu_pc + 1
    /\ UNCHANGED <<scn, emit_status, cpu_text, cpu_rom, cpu_sym, ram0, cpu_phase>>
    /\ UNCHANGED <<asm_vars, vm_vars>>

(***************************************************************************)
(* Scenarios: a VM instruction translated in file F inside function f and   *)
(* run on a machine with two words on its stack; and a call through         *)
(* __CALL_IMPL followed by the callee's return through __RETURN_IMPL.       *)
(***************************************************************************)
\* The indices tried: the specialised 0 and 1, the general case, and the bounds of
\* pointer, temp and static.
Indices == (0..MaxIndex) \cup {7, 8, 10, 239, 240}

ScnInstructions ==
    {VmIns(op, "", seg, n) : op \in {"push", "pop"}, seg \in Segments, n \in Indices}
    \cup {VmIns("function", "f", "", n) : n \in (0..MaxIndex) \cup {MAX_INT_VAL + 1}}
    \cup {VmIns("call", "g", "", n) : n \in 0..MaxArgc}
    \cup {VmIns(op, "L", "", 0) : op \in {"label", "goto", "if-goto"}}
    \cup {VmIns(op, "", "", 0) : op \in {"return", "add", "sub", "neg", "and", "or", "not",
                                         "eq", "lt", "gt"}}

ScnFiles == {"A", "B"}

\* The context an instruction of file `file` inside function f is written in.
ScnContext(file) == [InsContext(file) EXCEPT !.vm_function_name = "f"]

\* Where the machine's pointers start, and the words of the cells around them.
SP0 == 260
LCL0 == 300
ARG0 == 400
THIS0 == 3000
THAT0 == 3010

CellWord(a) == (a * 3 + 1) % WORD

\* RAM at the start: SP, LCL, ARG, THIS, THAT, the registers R5..R15, a stack
\* whose top word is y, and the cells of the four based segments.
InitRam(y) ==
    LET cells == (0..15) \cup (256..(SP0 + 8))
                 \cup UNION {b..(b + MaxIndex + 12) : b \in {LCL0, ARG0, THIS0, THAT0}}
    IN [a \in cells |->
           CASE a = 0 -> SP0 [] a = 1 -> LCL0 [] a = 2 -> ARG0 [] a = 3 -> THIS0
             [] a = 4 -> THAT0 [] a = SP0 - 1 -> y [] OTHER -> CellWord(a)]

TopWords == {7, 65535}

\* The machine starts at the first instruction of the fragment, after the prologue.
InsScenario(ins, file, y) ==
    LET w == write_vm_ins(CoderNew, ins, ScnContext(file))
        text == write_core_impl \o w.lines
    IN /\ scn = [kind |-> "ins", ins |-> ins, file |-> file, y |-> y, argc |-> 0, rv |-> 0]
       /\ emit_status = w.status
       /\ cpu_text = text
       /\ cpu_rom = LoadRom(text)
       /\ cpu_sym = LoadSymbols(text)
       /\ ram0 = InitRam(y)
       /\ cpu_ram = InitRam(y)
       /\ cpu_a = 0
       /\ cpu_d = 0
       /\ cpu_pc = Len(LoadRom(write_core_impl))
       /\ cpu_phase = "run"

\* ROM addresses outside the loaded text, standing for the caller's return site and
\* the callee's entry.
ReturnSite == Len(LoadRom(write_core_impl)) + 5
CalleeEntry == Len(LoadRom(write_core_impl)) + 9

\* The caller's registers as a call emission leaves them at the jump to __CALL_IMPL:
\* R13 = argc, R14 = callee entry, D = return address.
CallScenario(argc, rv) ==
    LET text == write_core_impl
        ram == Write(Write(InitRam(7), 13, argc), 14, CalleeEntry)
    IN /\ scn = [kind |-> "callret", ins |-> VmIns("call", "g", "", argc), file |-> "A",
                 y |-> 7, argc |-> argc, rv |-> rv]
       /\ emit_status = "Ok"
       /\ cpu_text = text
       /\ cpu_rom = LoadRom(text)
       /\ cpu_sym = LoadSymbols(text)
       /\ ram0 = ram
       /\ cpu_ram = ram
       /\ cpu_a = LoadSymbols(text)[CALL_IMPL_LABEL]
       /\ cpu_d = ReturnSite
       /\ cpu_pc = LoadSymbols(text)[CALL_IMPL_LABEL]
       /\ cpu_phase = "call"

ReturnValues == {5, 65535}

\* The callee, entered by __CALL_IMPL: it may push a local, repoint THIS and THAT,
\* pushes its return value and jumps to __RETURN_IMPL (write_return_ins).
CalleeRuns ==
    /\ cpu_phase = "call"
    /\ cpu_pc = CalleeEntry
    /\ \E locals \in 0..1, this \in {THIS0, THIS0 + 1} :
          LET sp == Read(cpu_ram, 0)
              r1 == IF locals = 1 THEN Write(cpu_ram, sp, 0) ELSE cpu_ram
              r2 == Write(r1, sp + locals, scn.rv)
              r3 == Write(Write(r2, 3, this), 4, this + 2)
          IN cpu_ram' = Write(r3, 0, sp + locals + 1)
    /\ cpu_a' = cpu_sym[RETURN_IMPL_LABEL]
    /\ cpu_pc' = cpu_sym[RETURN_IMPL_LABEL]
    /\ cpu_phase' = "return"
    /\ UNCHANGED <<scn, emit_status, cpu_text, cpu_rom, cpu_sym, ram0, cpu_d>>
    /\ UNCHANGED <<asm_vars, vm_vars>>

\* The constants pushed and the words compared: small values, the specialised 0
\* and 1, and the ends of the signed 16-bit range.
ConstWords == {0, 1, 7, 8, 32767}

CmpWords == {0, 1, 7, 32767, 32768, 65535}

\* The ROM address at which each fragment of a translated program ends.
FragmentEnds(frags) ==
    [k \in DOMAIN frags |-> Len(LoadRom(write_core_impl \o Flatten(SubSeq(frags, 1, k))))]

\* RAM whose stack holds exactly the words of `stack`, from the stack base up.
StackRam(stack) ==
    [a \in DOMAIN InitRam(7) |->
        IF a = 0 THEN CALL_STACK_BASE_ADDRESS + Len(stack)
        ELSE IF a - CALL_STACK_BASE_ADDRESS + 1 \in DOMAIN stack
        THEN stack[a - CALL_STACK_BASE_ADDRESS + 1]
        ELSE InitRam(7)[a]]

\* The machine is loaded with the prologue and the translation of the program
\* `prog` of file A, and starts at the program's first instruction.
ProgScenario(prog, stack) ==
    LET t == translate_file(prog, CoderNew, ScnContext("A"), <<>>)
        text == write_core_impl \o Flatten(t.out)
    IN /\ scn = [kind |-> "prog", prog |-> prog, stack |-> stack, marks |-> FragmentEnds(t.out)]
       /\ emit_status = t.status
       /\ cpu_text = text
       /\ cpu_rom = LoadRom(text)
       /\ cpu_sym = LoadSymbols(text)
       /\ ram0 = StackRam(stack)
       /\ cpu_ram = StackRam(stack)
       /\ cpu_a = 0
       /\ cpu_d = 0
       /\ cpu_pc = Len(LoadRom(write_core_impl))
       /\ cpu_phase = "run"

\* push constant a, push constant b, add on an empty stack.
AddPrograms ==
    {<<VmIns("push", "", "constant", a), VmIns("push", "", "constant", b),
       VmIns("add", "", "", 0)>> : a \in ConstWords, b \in ConstWords}

\* One comparison on a stack holding x below y.
CmpOps == {"eq", "gt", "lt"}

\* The assembler is not part of a machine run.
AsmIdle ==
    /\ asm_pc = "none"
    /\ hist = <<>>
    /\ sym_key_table = <<>>
    /\ sym_val_table = <<>>
    /\ inss = <<>>
    /\ ins_ptr = 0
    /\ error_count = 0
    /\ line_count = 0
    /\ next_var_ram_address = 0
    /\ bin_out = <<>>
    /\ flushed = FALSE
    /\ asm_result = "none"
    /\ prior = NoPrior

CpuInit ==
    /\ AsmIdle
    /\ VmIdle
    /\ \/ \E ins \in ScnInstructions, file \in ScnFiles, y \in TopWords : InsScenario(ins, file, y)
       \/ \E argc \in 0..MaxArgc, rv \in ReturnValues : CallScenario(argc, rv)
       \/ \E prog \in AddPrograms : ProgScenario(prog, <<>>)
       \/ \E op \in CmpOps, x \in CmpWords, y \in CmpWords :
             ProgScenario(<<VmIns(op, "", "", 0)>>, <<x, y>>)

CpuNext == Step \/ CalleeRuns

SpecCpu == CpuInit /\ [][CpuNext]_vars

\* The machine fetches and executes the next instruction for as long as there is one.
SpecCpuFair == SpecCpu /\ WF_vars(CpuNext)

\* The fragment has been executed to its end.
Halted == cpu_phase = "run" /\ emit_status = "Ok" /\ cpu_pc = Len(cpu_rom)


(***************************************************************************)
(* translate (src/vm-translator/src/main.rs): the prologue, then every      *)
(* input file in turn, line by line.                                        *)
(***************************************************************************)
MaxVmFiles == 2
MaxVmLines == 3

\* The lines an input file may hold.
VmLines == {"function f 3", "function Sys.init 0", "call f 1", "eq", "eq push temp 8",
            "lt gt pop static 2", "label 9abc add", "goto a-b if-goto a-b push @x 65536 // x",
            "- ", "push constant", "+7"}

\* The file stems of the paths translate is given, in order.
in_files == [i \in 1..(MaxVmFiles + 1) |-> IF i % 2 = 1 THEN "A" ELSE "B"]

LinesRead == LET F[i \in 0..Len(vm_files)] ==
                     IF i = 0 THEN 0 ELSE F[i - 1] + Len(vm_files[i].lines)
             IN F[Len(vm_files)]

VmInit ==
    /\ AsmIdle
    /\ CpuIdle
    /\ vm_pc = "start"
    /\ vm_coder = CoderNew
    /\ vm_ctx = InsContext("")
    /\ vm_parser = ParserReady
    /\ vm_out = <<>>
    /\ vm_result = "running"
    /\ vm_files = <<>>
    /\ vm_tokens = {}

\* translate: Coder::new and write_core_impl.
WriteCore ==
    /\ vm_pc = "start"
    /\ vm_out' = <<write_core_impl>>
    /\ vm_pc' = "between"
    /\ UNCHANGED <<vm_coder, vm_ctx, vm_parser, vm_result, vm_files, vm_tokens>>
    /\ UNCHANGED <<asm_vars, cpu_vars>>

\* A variant of the loop that writes the runtime prologue again at the head of each
\* file.
OpenFile_WritesCore(stem) ==
    /\ vm_pc = "between"
    /\ Len(vm_files) < MaxVmFiles
    /\ vm_ctx' = InsContext(stem)
    /\ vm_parser' = ParserReady
    /\ vm_files' = Append(vm_files, [stem |-> stem, lines |-> <<>>])
    /\ vm_out' = Append(vm_out, write_core_impl)
    /\ vm_pc' = "file"
    /\ UNCHANGED <<vm_coder, vm_result, vm_tokens>>
    /\ UNCHANGED <<asm_vars, cpu_vars>>

\* A variant of the loop that starts each file with a new Coder.
OpenFile_NewCoder(stem) ==
    /\ vm_pc = "between"
    /\ Len(vm_files) < MaxVmFiles
    /\ vm_ctx' = InsContext(stem)
    /\ vm_parser' = ParserReady
    /\ vm_files' = Append(vm_files, [stem |-> stem, lines |-> <<>>])
    /\ vm_coder' = CoderNew
    /\ vm_pc' = "file"
    /\ UNCHANGED <<vm_out, vm_result, vm_tokens>>
    /\ UNCHANGED <<asm_vars, cpu_vars>>

\* A variant of the loop that carries the function name over to the next file.
OpenFile_KeepsFunction(stem) ==
    /\ vm_pc = "between"
    /\ Len(vm_files) < MaxVmFiles
    /\ vm_ctx' = [vm_file_name |-> stem,
                  vm_function_name |-> IF vm_files = <<>> THEN "" ELSE vm_ctx.vm_function_name]
    /\ vm_parser' = ParserReady
    /\ vm_files' = Append(vm_files, [stem |-> stem, lines |-> <<>>])
    /\ vm_pc' = "file"
    /\ UNCHANGED <<vm_coder, vm_out, vm_result, vm_tokens>>
    /\ UNCHANGED <<asm_vars, cpu_vars>>

\* translate's loop takes the next path: a fresh context with the file's stem, and
\* translate_file opens the file.
OpenFile(stem) ==
    /\ vm_pc = "between"
    /\ Len(vm_files) < MaxVmFiles
    /\ stem = in_files[Len(vm_files) + 1]
    /\ vm_ctx' = InsContext(stem)
    /\ vm_parser' = ParserReady
    /\ vm_files' = Append(vm_files, [stem |-> stem, lines |-> <<>>])
    /\ vm_pc' = "file"
    /\ UNCHANGED <<vm_coder, vm_out, vm_result, vm_tokens>>
    /\ UNCHANGED <<asm_vars, cpu_vars>>

\* File::open(file)? fails.
OpenFileFails ==
    /\ vm_pc = "between"
    /\ Len(vm_files) < MaxVmFiles
    /\ vm_result' = "IoError"
    /\ vm_pc' = "done"
    /\ UNCHANGED <<vm_coder, vm_ctx, vm_parser, vm_out, vm_files, vm_tokens>>
    /\ UNCHANGED <<asm_vars, cpu_vars>>

\* The tokenizer reads one more line of the open file; the parser builds the
\* instructions its tokens complete and each is written in turn. The first error
\* is what translate returns.
TranslateLine(line) ==
    /\ vm_pc = "file"
    /\ LinesRead < MaxVmLines
    /\ LET tk == Tokenizer_line(line)
           p == ParseTokens(tk.tokens, vm_parser, <<>>)
           t == translate_file(p.items, vm_coder, vm_ctx, <<>>)
           status == IF tk.status # "Ok" THEN tk.status ELSE t.status
       IN /\ vm_tokens' = vm_tokens \cup {tk.all[i] : i \in DOMAIN tk.all}
          /\ vm_files' = [vm_files EXCEPT ![Len(vm_files)].lines = Append(@, line)]
          /\ vm_parser' = IF tk.status = "Ok" THEN p.parser ELSE vm_parser
          /\ vm_coder' = IF tk.status = "Ok" THEN t.coder ELSE vm_coder
          /\ vm_ctx' = IF tk.status = "Ok" THEN t.ctx ELSE vm_ctx
          /\ vm_out' = IF tk.status = "Ok" THEN vm_out \o t.out ELSE vm_out
          /\ vm_result' = IF status = "Ok" THEN vm_result ELSE status
          /\ vm_pc' = IF status = "Ok" THEN vm_pc ELSE "done"
    /\ UNCHANGED <<asm_vars, cpu_vars>>

\* The tokenizer reaches the end of the file: an instruction still waiting for an
\* operand is a parse error, otherwise translate_file returns Ok.
EndOfFile ==
    /\ vm_pc = "file"
    /\ vm_result' = IF vm_parser.cmd = "" THEN vm_result ELSE "ParseError"
    /\ vm_pc' = IF vm_parser.cmd = "" THEN "between" ELSE "done"
    /\ UNCHANGED <<vm_coder, vm_ctx, vm_parser, vm_out, vm_files, vm_tokens>>
    /\ UNCHANGED <<asm_vars, cpu_vars>>

\* in_files is exhausted: translate returns Ok.
Finish ==
    /\ vm_pc = "between"
    /\ vm_result' = "Ok"
    /\ vm_pc' = "done"
    /\ UNCHANGED <<vm_coder, vm_ctx, vm_parser, vm_out, vm_files, vm_tokens>>
    /\ UNCHANGED <<asm_vars, cpu_vars>>

VmNext ==
    \/ WriteCore
    \/ \E stem \in ScnFiles : OpenFile(stem)
    \/ OpenFileFails
    \/ \E line \in VmLines : TranslateLine(line)
    \/ EndOfFile
    \/ Finish

SpecVm == VmInit /\ [][VmNext]_vars

(***************************************************************************)
(* Claims about the assembler, checked under SpecAsm.                      *)
(***************************************************************************)
IsLabelLine(h) == h.res = "Ok" /\ h.ins.kind = "L1"

IsInsLine(h) == h.res = "Ok" /\ h.ins.kind # "L1"

IsSymRef(h) == h.res = "Ok" /\ h.ins.kind = "A2"

\* The number of A- and C-instructions before input line i.
ACBefore(i) == Cardinality({j \in 1..(i - 1) : IsInsLine(hist[j])})

SlotOf(name) == sym_val_table[sym_key_table[name] + 1]

LabelNames == {hist[i].sym : i \in {j \in DOMAIN hist : IsLabelLine(hist[j])}}

\* The instructions that produce an output word, in list order.
NonLabel == SelectSeq(inss, LAMBDA ins : ins.kind # "L1")

\* The input lines that hold an A- or C-instruction, in source order.
ACLines == SelectSeq(hist, IsInsLine)

\* C1: for an error-free input, after pass 1 every label has kind ROM and the ROM
\* address of the instruction that follows it (the number of A- and C-instructions
\* before the label line), and every @NAME is encoded as that address.
C1_LabelAddress ==
    /\ (asm_pc = "distribute" /\ error_count = 0) =>
          \A i \in DOMAIN hist : IsLabelLine(hist[i]) =>
              /\ SlotOf(hist[i].sym).use = "LROM"
              /\ SlotOf(hist[i].sym).addr = ACBefore(i)
    /\ (asm_result = "ok" /\ error_count = 0) =>
          \A i \in DOMAIN hist : IsLabelLine(hist[i]) =>
              \A k \in DOMAIN NonLabel :
                  (NonLabel[k].kind = "A2" /\ NonLabel[k].sym_id = sym_key_table[hist[i].sym])
                      => (k \in DOMAIN bin_out /\ bin_out[k] = ACBefore(i))

\* C2: the predefined symbols keep their seeded addresses through the whole
\* assembly (the distribution pass never rewrites one), so pass 2 encodes them.
C2_PredefinedKept ==
    asm_pc \in {"encode", "done"} /\ asm_result \in {"running", "ok"} =>
        \A i \in DOMAIN Predefined :
            Predefined[i].name \notin LabelNames =>
                SlotOf(Predefined[i].name).addr = Predefined[i].addr

\* User variables: referenced by @NAME, never defined as a label, not predefined.
VarNames == {hist[i].sym : i \in {j \in DOMAIN hist : IsSymRef(hist[j])}}
            \ (LabelNames \cup PredefinedNames)

FirstRef(name) == CHOOSE i \in DOMAIN hist :
    /\ IsSymRef(hist[i]) /\ hist[i].sym = name
    /\ \A j \in 1..(i - 1) : ~(IsSymRef(hist[j]) /\ hist[j].sym = name)

\* The rank k of a variable in the order of first A-reference.
VarRank(name) == 1 + Cardinality({m \in VarNames : FirstRef(m) < FirstRef(name)})

\* C3: the k-th distinct user variable gets RAM address 16 + (k - 1).
C3_VariableAddresses ==
    asm_pc \in {"encode", "done"} /\ asm_result \in {"running", "ok"} =>
        \A name \in VarNames : SlotOf(name).addr = 16 + (VarRank(name) - 1)

\* C4: label wins over variable: the slot of a label L has kind ROM and the address
\* the label line gave it, every @L (before or after the label line) carries that
\* slot id, the distribution pass leaves it alone, and every @L is encoded as
\* that one address.
C4_LabelWins ==
    \A i \in DOMAIN hist : IsLabelLine(hist[i]) =>
        LET name == hist[i].sym
            id == sym_key_table[name]
        IN /\ SlotOf(name).use = "LROM"
           /\ SlotOf(name) = hist[i].slot
           /\ \A j \in DOMAIN hist :
                  (IsSymRef(hist[j]) /\ hist[j].sym = name) => hist[j].ins.sym_id = id
           /\ asm_result = "ok" =>
                  \A k \in DOMAIN NonLabel :
                      (NonLabel[k].kind = "A2" /\ NonLabel[k].sym_id = id)
                          => (k \in DOMAIN bin_out /\ bin_out[k] = hist[i].slot.addr)

\* C4's case: @L, then (L), then @L again, assembled to the end.
C4_Witness ==
    /\ asm_result = "ok"
    /\ \E i, j, k \in DOMAIN hist :
          /\ i < j /\ j < k
          /\ IsSymRef(hist[i]) /\ IsLabelLine(hist[j]) /\ IsSymRef(hist[k])
          /\ hist[i].sym = hist[j].sym /\ hist[k].sym = hist[j].sym

\* C5: for an input without parse errors and without resource exhaustion, one
\* output line is written per A- or C-instruction, none for label, blank and
\* comment lines, in source order.
C5_OutputCount ==
    (asm_pc = "done" /\ asm_result = "ok" /\ error_count = 0) =>
        /\ Len(bin_out) = Cardinality({i \in DOMAIN hist : IsInsLine(hist[i])})
        /\ Len(bin_out) = Len(ACLines)
        /\ \A k \in DOMAIN bin_out : bin_out[k] = encode_ins(ACLines[k].ins, sym_val_table)

\* C5's case: a finished assembly of a label line, a comment line and an instruction.
C5_Witness ==
    /\ asm_pc = "done" /\ asm_result = "ok" /\ error_count = 0
    /\ \E i, j, k \in DOMAIN hist :
          IsLabelLine(hist[i]) /\ hist[j].res = "None" /\ IsInsLine(hist[k])
    /\ Len(bin_out) >= 1

(***************************************************************************)
(* Claims about the translator's emitted assembly, checked under SpecCpu.   *)
(***************************************************************************)
IsPushPop == scn.kind = "ins" /\ scn.ins.op \in {"push", "pop"}

BasedSegments == {"argument", "local", "this", "that"}

\* The RAM cell holding the base of a based segment.
BaseCell(segment) ==
    CASE segment = "local" -> 1 [] segment = "argument" -> 2
      [] segment = "this" -> 3 [] segment = "that" -> 4

SameRam(r1, r2) == \A a \in DOMAIN r1 \cup DOMAIN r2 : Read(r1, a) = Read(r2, a)

\* RAM after pushing word v on the starting machine.
Pushed(v) == Write(Write(ram0, SP0, v), 0, SP0 + 1)

\* RAM after popping the starting machine's top word into cell a.
PoppedTo(a) == Write(Write(ram0, a, scn.y), 0, SP0 - 1)

Accepted(line) == parse_ins(line, 0, SeedKey, SeedVal).res # "Err"

\* C6: every line the emitter writes, prologue and fragments alike, is accepted by
\* the assembler's parse_ins without a parse error.
C6_EmittedLinesParse == \A i \in DOMAIN cpu_text : Accepted(cpu_text[i])

\* C7: __CALL_IMPL entered with R13 = argc, R14 = callee entry and D = return
\* address reaches the callee with return address, LCL, ARG, THIS, THAT pushed,
\* ARG = SP - 5 - argc and LCL = SP; and once the callee has pushed its return
\* value, __RETURN_IMPL ends at the return address with LCL, ARG, THIS, THAT as
\* before the call, the return value at old SP - argc and SP = old SP - argc + 1.
\* Control leaves the loaded text only at those two places.
C7_CallReturnRestores ==
    (scn.kind = "callret" /\ cpu_pc >= Len(cpu_rom)) =>
        \/ /\ cpu_phase = "call"
           /\ cpu_pc = CalleeEntry
           /\ Read(cpu_ram, SP0) = ReturnSite
           /\ \A k \in 1..4 : Read(cpu_ram, SP0 + k) = Read(ram0, k)
           /\ Read(cpu_ram, 0) = SP0 + 5
           /\ Read(cpu_ram, 2) = Read(cpu_ram, 0) - 5 - scn.argc
           /\ Read(cpu_ram, 1) = Read(cpu_ram, 0)
           /\ \A a \in 256..(SP0 - 1) : Read(cpu_ram, a) = Read(ram0, a)
        \/ /\ cpu_phase = "return"
           /\ cpu_pc = ReturnSite
           /\ \A k \in 1..4 : Read(cpu_ram, k) = Read(ram0, k)
           /\ Read(cpu_ram, SP0 - scn.argc) = scn.rv
           /\ Read(cpu_ram, 0) = SP0 - scn.argc + 1
           /\ \A a \in 256..(SP0 - scn.argc - 1) : Read(cpu_ram, a) = Read(ram0, a)

\* A call with arguments has returned to the caller.
C7_Witness ==
    /\ scn.kind = "callret"
    /\ scn.argc >= 1
    /\ cpu_phase = "return"
    /\ cpu_pc = ReturnSite

\* C8: for S in argument, local, this, that and every index i, the fragment of
\* `pop S i` decrements SP, stores the popped word at RAM[RAM[base(S)] + i] and
\* changes no other cell; the fragment of `push S i` pushes RAM[RAM[base(S)] + i]
\* and increments SP.
C8_BasedSegments ==
    (Halted /\ IsPushPop /\ scn.ins.segment \in BasedSegments) =>
        LET cell == Read(ram0, BaseCell(scn.ins.segment)) + scn.ins.n
        IN IF scn.ins.op = "push"
           THEN SameRam(cpu_ram, Pushed(Read(ram0, cell)))
           ELSE SameRam(cpu_ram, PoppedTo(cell))

\* C9: pointer 0|1 and temp 0..7 are the cells RAM[3], RAM[4] and RAM[5..12]
\* themselves: push pushes the cell's word and pop stores into the cell, without
\* indirection through the cell's content.
C9_PointerTempDirect ==
    (Halted /\ IsPushPop /\ scn.ins.segment \in {"pointer", "temp"}) =>
        LET cell == IF scn.ins.segment = "pointer" THEN 3 + scn.ins.n ELSE 5 + scn.ins.n
        IN IF scn.ins.op = "push"
           THEN SameRam(cpu_ram, Pushed(Read(ram0, cell)))
           ELSE SameRam(cpu_ram, PoppedTo(cell))

\* C10: for every file stem F and index i < 240, `push static i` and
\* `pop static i` are emitted without failure and reference the symbol F.<i>,
\* <i> the decimal rendering of i.
C10_StaticSymbol ==
    (IsPushPop /\ scn.ins.segment = "static" /\ scn.ins.n < MAX_STATIC_VARIABLES) =>
        /\ emit_status = "Ok"
        /\ \E i \in DOMAIN cpu_text :
              StripWs(cpu_text[i]) = "@" \o scn.file \o "." \o Dec(scn.ins.n)

IsProg == scn.kind = "prog" /\ emit_status = "Ok"

SP == Read(cpu_ram, 0)

\* C11: `push constant a`, `push constant b`, `add` run from SP = 256 leaves
\* a + b at RAM[256] and SP = 257, each push having raised SP by exactly 1 and
\* add having lowered it by exactly 1; for the specialised constants 0 and 1 too.
C11_PushPushAdd ==
    (IsProg /\ scn.prog \in AddPrograms) =>
        LET a == scn.prog[1].n
            b == scn.prog[2].n
        IN /\ cpu_pc = scn.marks[1] =>
                 SP = CALL_STACK_BASE_ADDRESS + 1 /\ Read(cpu_ram, CALL_STACK_BASE_ADDRESS) = a
           /\ cpu_pc = scn.marks[2] =>
                 /\ SP = CALL_STACK_BASE_ADDRESS + 2
                 /\ Read(cpu_ram, CALL_STACK_BASE_ADDRESS) = a
                 /\ Read(cpu_ram, CALL_STACK_BASE_ADDRESS + 1) = b
           /\ cpu_pc = scn.marks[3] =>
                 /\ SP = CALL_STACK_BASE_ADDRESS + 1
                 /\ Read(cpu_ram, CALL_STACK_BASE_ADDRESS) = (a + b) % WORD
           /\ cpu_pc <= scn.marks[3]

\* push constant 7, push constant 8, add has run to its end.
C11_Witness ==
    /\ IsProg /\ scn.prog \in AddPrograms
    /\ scn.prog[1].n = 7 /\ scn.prog[2].n = 8
    /\ cpu_pc = Len(cpu_rom)
    /\ Read(cpu_ram, CALL_STACK_BASE_ADDRESS) = 15

IsCmp == IsProg /\ Len(scn.prog) = 1 /\ scn.prog[1].op \in CmpOps

\* What a comparison of x (pushed first) with y (pushed second) should leave.
Compared(op, x, y) ==
    LET holds == CASE op = "eq" -> Signed(x) = Signed(y)
                   [] op = "gt" -> Signed(x) > Signed(y)
                   [] op = "lt" -> Signed(x) < Signed(y)
    IN IF holds THEN WORD - 1 ELSE 0

\* C12: for all 16-bit two's-complement x (pushed first) and y (pushed second),
\* the emission of eq / gt / lt lowers SP by exactly 1, leaves -1 at the new stack
\* top iff x = y / x > y / x < y as signed integers and 0 otherwise, and resumes
\* at the return-site label placed immediately after the emission.
C12_Comparisons ==
    IsCmp =>
        /\ cpu_pc <= scn.marks[1]
        /\ cpu_pc = scn.marks[1] =>
              /\ SP = CALL_STACK_BASE_ADDRESS + 1
              /\ Read(cpu_ram, CALL_STACK_BASE_ADDRESS)
                    = Compared(scn.prog[1].op, scn.stack[1], scn.stack[2])

\* The symbols the input has added to the table so far.
AddedSymbols ==
    {hist[j].sym : j \in {k \in DOMAIN hist : hist[k].res = "Ok" /\ hist[k].sym # ""}}
        \ DOMAIN SeedKey

IsDuplicate(h) == h.res = "Err" /\ h.err = "DuplicateLabel"

\* C14: once (NAME) has made NAME a ROM label, every later line (NAME) is
\* rejected with DuplicateLabel, and the symbol table stays as it was: NAME's slot
\* keeps the address and kind of the first definition and no slot is added.
C14_DuplicateLabel ==
    \A i \in DOMAIN hist : IsLabelLine(hist[i]) =>
        /\ \A j \in DOMAIN hist : (j > i /\ hist[j].line = hist[i].line) => IsDuplicate(hist[j])
        /\ SlotOf(hist[i].sym) = hist[i].slot
        /\ DOMAIN sym_key_table = DOMAIN SeedKey \cup AddedSymbols
        /\ Len(sym_val_table) = Len(SeedVal) + Cardinality(AddedSymbols)

\* C14's case: a label defined and then defined again twice, assembled to the end.
C14_Witness ==
    \E i, j, k \in DOMAIN hist :
        /\ i < j /\ j < k
        /\ IsLabelLine(hist[i])
        /\ IsDuplicate(hist[j]) /\ hist[j].line = hist[i].line
        /\ IsDuplicate(hist[k]) /\ hist[k].line = hist[i].line
        /\ asm_pc = "done"

\* C24: whatever lines were read (labels, blank lines, comments, instructions and
\* lines that do not parse), ins_ptr, which assemble returns as the instruction
\* count, is the number of A- and C-instructions appended to the instruction list.
C24_InsPtrCountsInstructions ==
    /\ ins_ptr = Len(NonLabel)
    /\ ins_ptr = Len(ACLines)

(***************************************************************************)
(* Claims about parse_ins and the symbol table, checked under SpecParse.    *)
(***************************************************************************)
\* A step of the parse loop: one more line has gone through parse_ins.
LineParsed == Len(hist') = Len(hist) + 1

\* What parse_ins made of the line of such a step.
Parsed == hist'[Len(hist')]

\* C25: a line on which parse_ins returns an error, and a blank, comment or
\* C-instruction line, leaves both symbol-table structures as they were.
C25_TablesUntouched ==
    [][(/\ LineParsed
        /\ \/ Parsed.res \in {"Err", "None"}
           \/ Parsed.ins.kind \in {"C1", "C2", "C3"})
          => /\ sym_key_table' = sym_key_table
             /\ sym_val_table' = sym_val_table]_vars

\* C25's case: after a variable and a label were interned, a label line without
\* its closing parenthesis has gone through parse_ins.
C25_Witness ==
    /\ Len(hist) = 3
    /\ IsSymRef(hist[1]) /\ hist[1].sym \notin PredefinedNames
    /\ IsLabelLine(hist[2])
    /\ hist[3].err = "LInsMissingClose"

\* The slot ids in use.
SlotIds(key) == {key[n] : n \in DOMAIN key}

\* Names and slots correspond one to one.
Bijective(key, val) ==
    /\ SlotIds(key) = 0..(Len(val) - 1)
    /\ Cardinality(DOMAIN key) = Len(val)

\* C26: names and slots always correspond one to one, with slot ids 0..len-1; a
\* name keeps its slot id, slots are only appended, and @NAME for a name already
\* in the table returns its slot and changes neither its address nor its kind.
C26_TableBijection ==
    [][LineParsed =>
        /\ Bijective(sym_key_table, sym_val_table)
        /\ Bijective(sym_key_table', sym_val_table')
        /\ \A n \in DOMAIN sym_key_table :
               n \in DOMAIN sym_key_table' /\ sym_key_table'[n] = sym_key_table[n]
        /\ Len(sym_val_table') >= Len(sym_val_table)
        /\ (IsSymRef(Parsed) /\ Parsed.sym \in DOMAIN sym_key_table) =>
               /\ Parsed.ins.sym_id = sym_key_table[Parsed.sym]
               /\ sym_key_table' = sym_key_table
               /\ sym_val_table' = sym_val_table]_vars

\* C26's case: @foo interns foo, (foo) turns its slot into a label, and @foo again
\* finds that slot.
C26_Witness ==
    /\ Len(hist) = 3
    /\ IsSymRef(hist[1]) /\ hist[1].sym \notin PredefinedNames
    /\ IsLabelLine(hist[2]) /\ hist[2].sym = hist[1].sym
    /\ IsSymRef(hist[3]) /\ hist[3].sym = hist[1].sym
    /\ SlotOf(hist[1].sym).use = "LROM"

(***************************************************************************)
(* Claims about the limits of assemble, checked under SpecAsmEdge.          *)
(***************************************************************************)
\* A step of the parse loop that read a line which does not parse.
ErrorLineRead == Len(hist') = Len(hist) + 1 /\ hist'[Len(hist')].res = "Err"

ErrorFreeRun ==
    /\ asm_pc = "done" /\ asm_result # "io_error"
    /\ error_count = 0

\* The A- and C-instructions of the whole input.
InstructionCount == prior.ins + Len(ACLines)

\* The distinct user variables of the whole input.
VariableCount == prior.vars + Cardinality(VarNames)

\* The most user variables the RAM below the screen holds when they start at 16.
MaxUserVariables == SCR_RAM_ADDRESS - SeedNextVar

\* C16: an error-free input of up to 32767 A/C instructions is not refused for
\* ROM, and when it assembles one output line is written per instruction; only an
\* input with a 32768th instruction is reported as ROM exhausted.
C16_RomBoundary ==
    ErrorFreeRun =>
        /\ asm_result = "rom_exhausted" => InstructionCount > MAX_ROM_ADDRESS
        /\ asm_result = "ok" => prior.written + Len(bin_out) = InstructionCount

\* C17: an error-free input with up to 16368 distinct user variables is not
\* refused for RAM and each variable gets an address below 16384; with one more
\* variable assemble reports RAM exhausted and writes nothing.
C17_RamBoundary ==
    ErrorFreeRun =>
        /\ asm_result = "ram_exhausted" =>
               /\ VariableCount > MaxUserVariables
               /\ bin_out = <<>> /\ prior.written = 0
        /\ asm_result = "ok" =>
               /\ VariableCount <= MaxUserVariables
               /\ \A v \in VarNames : SlotOf(v).addr < SCR_RAM_ADDRESS

\* C27: whichever way assemble returns (normal end, 10th parse error, ROM
\* exhausted, RAM exhausted, input read error), the output writer has been flushed.
C27_FlushedOnReturn == asm_pc = "done" => flushed

(***************************************************************************)
(* Claims about the translator run as a whole, checked under SpecVm.        *)
(***************************************************************************)
HasPrefix(s, p) == Len(s) >= Len(p) /\ SubSeq(s, 1, Len(p)) = p

Contains(s, sub) == \E i \in 1..(Len(s) - Len(sub) + 1) : SubSeq(s, i, i + Len(sub) - 1) = sub

\* The symbol a line declares or references ("" when it does neither).
NameOfLine(line) ==
    IF HasPrefix(line, "(") THEN SubSeq(line, 2, Len(line) - 1)
    ELSE IF HasPrefix(line, "@") THEN SubSeq(line, 2, Len(line))
    ELSE ""

IsSynthesised(name) ==
    \/ HasPrefix(name, "__LOOP_")
    \/ HasPrefix(name, "__RET_EQ")
    \/ HasPrefix(name, "__RET_LT")
    \/ HasPrefix(name, "__RET_GT")
    \/ Contains(name, "$ret.")

\* The labels one emission synthesises.
SynthesisedBy(frag) ==
    {NameOfLine(frag[k]) : k \in {n \in DOMAIN frag : IsSynthesised(NameOfLine(frag[n]))}}

\* C13: no two emissions of one translator run synthesise the same __LOOP_ label,
\* the same $ret.N return label or the same __RET_EQ/LT/GT label.
C13_SynthesisedUnique ==
    \A i, j \in DOMAIN vm_out :
        i # j => SynthesisedBy(vm_out[i]) \cap SynthesisedBy(vm_out[j]) = {}

\* C19 (on the single emissions of SpecCpu): push or pop with pointer i >= 2,
\* temp i >= 8 or static i >= 240 fails
\* with IndexOutOfBounds and writes nothing for the instruction; every index
\* inside the bounds is accepted.
C19_IndexBounds ==
    (IsPushPop /\ scn.ins.segment \in {"pointer", "temp", "static"}) =>
        LET bound == CASE scn.ins.segment = "pointer" -> 2
                       [] scn.ins.segment = "temp" -> 8
                       [] OTHER -> MAX_STATIC_VARIABLES
        IN IF scn.ins.n >= bound
           THEN emit_status = "IndexOutOfBounds" /\ cpu_text = write_core_impl
           ELSE emit_status = "Ok"

\* A step on which translate meets its first error.
ErrorStep == vm_result = "running" /\ vm_result' \notin {"running", "Ok"}

\* The line the step read, "" when it read none.
LineRead ==
    IF vm_files' = vm_files \/ Len(vm_files') # Len(vm_files) THEN ""
    ELSE LET f == vm_files'[Len(vm_files')] IN f.lines[Len(f.lines)]

\* The instructions of a line that come before the first one the parser or the
\* coder refuses; none at all when a word of the line is no token.
GoodBefore(line) ==
    LET tk == Tokenizer_line(line)
        items == ParseTokens(tk.tokens, vm_parser, <<>>).items
        bad == {k \in DOMAIN items :
                   \/ items[k].op = "ParseError"
                   \/ write_vm_ins(CoderNew, items[k], vm_ctx).status # "Ok"}
    IN IF tk.status # "Ok" THEN 0
       ELSE Cardinality({k \in DOMAIN items : \A b \in bad : k < b})

\* C18: at the first token, parse or code error translate returns that error: no
\* emission for the failing instruction or for a later one, no later file opened,
\* and what was written before stays in the output.
C18_NoRecovery ==
    [][/\ vm_pc = "done" => UNCHANGED vm_vars
       /\ ErrorStep =>
            /\ vm_pc' = "done"
            /\ Len(vm_files') = Len(vm_files)
            /\ SubSeq(vm_out', 1, Len(vm_out)) = vm_out
            /\ Len(vm_out') = Len(vm_out) + GoodBefore(LineRead)]_vars

\* C18's case: a code error in the first of the files, after an instruction of the
\* same line was written.
C18_Witness ==
    /\ vm_result = "IndexOutOfBounds"
    /\ Len(vm_files) = 1
    /\ Len(vm_files[1].lines) > 1
    /\ Len(vm_out) > 2

\* The whole word matches [A-Za-z_.$:][A-Za-z0-9_.$:]*.
IsIdentifierWord(word) ==
    /\ Len(word) > 0
    /\ CharAt(word, 1) \in FirstSymChars
    /\ \A i \in 2..Len(word) : CharAt(word, i) \in SymChars

\* The class the order of the rules gives a word: integer, keyword, identifier,
\* and invalid for every other word.
ClassOf(word) ==
    IF WordAsU16(word) # -1 THEN "IntConst"
    ELSE IF word \in VmCommands THEN "Command"
    ELSE IF word \in Segments THEN "Segment"
    ELSE IF IsIdentifierWord(word) THEN "Identifier"
    ELSE "InvalidToken"

\* C20: every word the tokenizer has classified is an IntConst if it is a decimal
\* integer, else a Command or Segment if it is a keyword, else an Identifier only
\* if the whole word matches the identifier pattern, and an InvalidToken otherwise.
C20_TokenClasses == \A t \in vm_tokens : t.kind = ClassOf(t.word)

\* The labels of the runtime prologue.
CoreLabels ==
    {"__RET_SYS_INIT", "__HANG", EQ_IMPL_LABEL, GT_IMPL_LABEL, LT_IMPL_LABEL, RETURN_IMPL_LABEL,
     CALL_IMPL_LABEL}

\* The label lines of the runtime prologue.
CoreDefinitions == {"(" \o name \o ")" : name \in CoreLabels}

\* Each label of the prologue is defined by exactly one of its lines.
CoreDefinedOnce ==
    \A d \in CoreDefinitions :
        Cardinality({k \in DOMAIN write_core_impl : write_core_impl[k] = d}) = 1

\* C21: the runtime prologue is the first thing of the output, written before the
\* code of any instruction, and no later emission repeats it or any of its labels.
C21_PrologueOnce ==
    IF vm_pc = "start" THEN vm_out = <<>>
    ELSE /\ vm_out # <<>>
         /\ vm_out[1] = write_core_impl
         /\ CoreDefinedOnce
         /\ \A i \in 2..Len(vm_out) :
                /\ vm_out[i] # write_core_impl
                /\ \A k \in DOMAIN vm_out[i] : vm_out[i][k] \notin CoreDefinitions

\* C21's case: two files translated to the end, each with code of its own.
C21_Witness ==
    /\ vm_result = "Ok"
    /\ Len(vm_files) = 2
    /\ \A f \in DOMAIN vm_files : vm_files[f].lines # <<>>
    /\ Len(vm_out) >= 3

\* The text after the first '.' of a symbol: the function's name in <file>.<name>.
AfterDot(sym) == SubSeq(sym, FirstPos(sym, ".") + 1, Len(sym))

\* The labels that function emissions define: the first line of an emission that
\* is a label line (the labels of `label` emissions hold a '$').
FunctionLabels ==
    {LabelOfText(vm_out[i][1]) :
        i \in {n \in 2..Len(vm_out) : /\ vm_out[n] # <<>>
                                      /\ IsLabelText(vm_out[n][1])
                                      /\ FirstPos(vm_out[n][1], "$") = 0}}

\* The symbols an emission loads as the callee's entry: those it stores in R14.
CallTargets(frag) ==
    {SubSeq(frag[k], 2, Len(frag[k])) :
        k \in {n \in 1..(Len(frag) - 3) : /\ HasPrefix(frag[n], "@")
                                          /\ frag[n + 1] = "D=A"
                                          /\ HasPrefix(frag[n + 2], "@R14")
                                          /\ frag[n + 3] = "M=D"}}

\* C22: the entry label that the bootstrap loads is the one defined for function
\* Sys.init, and the entry label loaded for `call g` is the one `function g`
\* defines, whichever file holds the definition.
C22_CallTargetsDefined ==
    \A l \in FunctionLabels :
        /\ AfterDot(l) = "Sys.init" => CallTargets(bootstrap_impl) = {l}
        /\ \A i \in 2..Len(vm_out) : \A t \in CallTargets(vm_out[i]) :
               AfterDot(t) = AfterDot(l) => t = l

\* The positions of an emission that load a return-site label <file>.<g>$ret.<N>.
ReturnSiteLoads(frag) ==
    {k \in DOMAIN frag : HasPrefix(frag[k], "@") /\ Contains(frag[k], "$ret.")}

\* The lines of the whole output that define label `name`, as <<emission, line>>.
DefinitionsOf(name) ==
    {<<i, k>> \in UNION {{i} \X DOMAIN vm_out[i] : i \in DOMAIN vm_out} :
        vm_out[i][k] = "(" \o name \o ")"}

\* C23: the return-site label a call emission loads into D is defined exactly once
\* in the output, by the label line that follows that call's jump to __CALL_IMPL.
C23_ReturnSiteDefined ==
    \A i \in 2..Len(vm_out) : \A k \in ReturnSiteLoads(vm_out[i]) :
        /\ k + 4 \in DOMAIN vm_out[i]
        /\ vm_out[i][k + 1] = "D=A"
        /\ vm_out[i][k + 2] = "@" \o CALL_IMPL_LABEL
        /\ vm_out[i][k + 3] = "0;JMP"
        /\ DefinitionsOf(NameOfLine(vm_out[i][k])) = {<<i, k + 4>>}

HasSuffix(s, p) == Len(s) >= Len(p) /\ SubSeq(s, Len(s) - Len(p) + 1, Len(s)) = p

\* The emissions of the instructions, in output order (the prologue left out).
InsEmissions == SubSeq(vm_out, 2, Len(vm_out))

IsCallEmission(frag) == Len(frag) = 12 /\ frag[11] = "@" \o CALL_IMPL_LABEL

\* The emissions that jump to the trampoline `impl` (__EQ_IMPL, __LT_IMPL, __GT_IMPL).
IsCmpEmission(frag, impl) == Len(frag) = 5 /\ frag[3] = "@" \o impl

\* The k-th emission jumping to `impl` carries the return label `prefix`<k>.
CountedFrom1(impl, prefix) ==
    LET frags == SelectSeq(InsEmissions, LAMBDA frag : IsCmpEmission(frag, impl))
    IN \A k \in DOMAIN frags :
           /\ frags[k][1] = "@" \o prefix \o Dec(k)
           /\ frags[k][5] = "(" \o prefix \o Dec(k) \o ")"

\* C28: the k-th call of the whole run, across all files, is emitted with N = k,
\* and so are the k-th eq, lt and gt, each counted on its own.
C28_CountersContiguous ==
    /\ LET calls == SelectSeq(InsEmissions, IsCallEmission)
       IN /\ \A k \in DOMAIN calls : HasSuffix(calls[k][9], "$ret." \o Dec(k))
          /\ vm_coder.call_count = Len(calls)
    /\ CountedFrom1(EQ_IMPL_LABEL, "__RET_EQ")
    /\ CountedFrom1(LT_IMPL_LABEL, "__RET_LT")
    /\ CountedFrom1(GT_IMPL_LABEL, "__RET_GT")

\* C28's case: a call in each of two files, with comparisons emitted as well.
C28_Witness ==
    /\ vm_result = "Ok"
    /\ Len(vm_files) = 2
    /\ \A f \in DOMAIN vm_files : \E n \in DOMAIN vm_files[f].lines :
           HasPrefix(vm_files[f].lines[n], "call")
    /\ vm_coder.call_count = 2
    /\ vm_coder.eq_count + vm_coder.lt_count + vm_coder.gt_count > 0

\* The name declared by the last `function` line among `lines`, "" when there is
\* none.
RecentFunction(lines) ==
    LET decls == {n \in DOMAIN lines : HasPrefix(lines[n], "function ")}
        last == CHOOSE n \in decls : \A m \in decls : m <= n
    IN IF decls = {} THEN "" ELSE Tokenizer_line(lines[last]).tokens[2].word

\* The symbols with a '$' that the emissions added by a step declare or reference,
\* those of call emissions aside: the symbols of label, goto and if-goto.
LabelSymbolsAdded ==
    UNION {{NameOfLine(vm_out'[i][k]) :
               k \in {n \in DOMAIN vm_out'[i] : FirstPos(NameOfLine(vm_out'[i][n]), "$") # 0}} :
           i \in {n \in (Len(vm_out) + 1)..Len(vm_out') : ~IsCallEmission(vm_out'[n])}}

\* C29: every label, goto and if-goto emission uses <file>.<function>$<label> with
\* the file's stem and the name of the last function declared earlier in the same
\* file, the empty name when the file has declared none yet, whatever the file
\* before it ended with.
C29_LabelScope ==
    [][LineRead # "" =>
        LET file == vm_files[Len(vm_files)]
            scope == file.stem \o "." \o RecentFunction(file.lines) \o "$"
        IN \A sym \in LabelSymbolsAdded :
               /\ HasPrefix(sym, scope)
               /\ Contains(LineRead, SubSeq(sym, Len(scope) + 1, Len(sym)))]_vars

\* C29's case: a label inside a function of the first file, then a label at the
\* head of the second file.
C29_Witness ==
    /\ Len(vm_files) = 2
    /\ Len(vm_files[1].lines) = 2
    /\ HasPrefix(vm_files[1].lines[1], "function ")
    /\ HasPrefix(vm_files[1].lines[2], "label ")
    /\ Len(vm_files[2].lines) = 1
    /\ HasPrefix(vm_files[2].lines[1], "label ")
    /\ Len(vm_out) = 6
    /\ vm_out[5] = <<"(" \o vm_files[2].stem \o ".$9abc)">>

\* ---------------------------------------------------------------------------
\* Claims about the function command, checked under SpecCpuFair
\* ---------------------------------------------------------------------------

IsFunctionRun == scn.kind = "ins" /\ scn.ins.op = "function" /\ emit_status = "Ok"

RECURSIVE ZeroCells(_, _, _)
\* ram with the k cells from a on set to 0.
ZeroCells(ram, a, k) == IF k = 0 THEN ram ELSE ZeroCells(Write(ram, a, 0), a + 1, k - 1)

\* The RAM the claim describes: k zero cells starting at the old SP, SP raised by k.
LocalsPushed(k) == Write(ZeroCells(ram0, SP0, k), 0, SP0 + k)

FunctionPushesZerosWithinLiteral ==
    /\ [](IsFunctionRun /\ Halted => SameRam(cpu_ram, LocalsPushed(scn.ins.n)))
    /\ (IsFunctionRun /\ scn.ins.n <= MAX_INT_VAL ~> Halted)

\* The loop's first line is the one the machine stops at when the count does not fit.
FunctionStuckAtCount ==
    /\ IsFunctionRun
    /\ scn.ins.n > MAX_INT_VAL
    /\ cpu_pc < Len(cpu_rom)
    /\ ~Assembles(cpu_rom[cpu_pc + 1])

C30_Witness ==
    /\ IsFunctionRun
    /\ Halted
    /\ scn.ins.n >= 3
    /\ SP = SP0 + scn.ins.n
    /\ \A a \in SP0..(SP0 + scn.ins.n - 1) : Read(cpu_ram, a) = 0 /\ Read(ram0, a) # 0

=============================================================================
